---- MODULE Spec2Model ----
(***************************************************************************)
(* Prayer-time calculator of the Muslim Companion firmware                 *)
(* (lib/prayer_times.py), its DST resolver (lib/dst_utils.py), the         *)
(* configuration store (prayer_config.py) and the settings menus that      *)
(* toggle daylight saving.                                                 *)
(*                                                                         *)
(* Units.  Decimal hours are integers in micro-hours (Unit per hour),      *)
(* latitude and longitude are integers in micro-degrees, and solar         *)
(* altitude angles are integers in milli-degrees.  The floating-point      *)
(* trigonometry of sun_position and of the arccosine in                    *)
(* calculate_horizon_time is tabulated: the tables below hold the values   *)
(* that code yields (floored to a micro-hour) for the latitudes, dates and *)
(* angles of the model.  Everything discrete is computed here as the code  *)
(* computes it.                                                            *)
(*                                                                         *)
(* A clock string "HH:MM" is a sequence of one-character strings, and a    *)
(* schedule (a Python dict in insertion order) is a sequence of            *)
(* <<name, clock string>> pairs.                                           *)
(***************************************************************************)
EXTENDS Integers, Sequences, FiniteSets, TLC

\* ------------------------------------------------------------------ bounds
\* Number of entries of DateList the RTC may show.
NumDates == 3
\* Number of entries of SetupList a run may start from.
NumSetups == 3
\* Clock readings are drawn at a cached prayer time and Slack minutes either side.
Slack == 1
\* Years given to is_dst_active are FirstYear .. LastYear.
LastYear == 2029
\* Whole days by which the hours given to hours_to_time lie outside 0 .. 24.
Wraps == 2

\* --------------------------------------------------------------- constants
\* Micro-hours per hour.
Unit == 1000000
\* Milli-degrees per degree.
Milli == 1000
\* set_clock_time lets the year start at 2024.
FirstYear == 2024
\* Initial value of last_update_day.
NoDay == -1

None == "None"

\* Dates the RTC shows, as <<year, month, day>>.  The first two straddle the
\* day on which is_dst_active switches in March 2025; the third has the
\* day-of-month of the first.
DateList ==
    << <<2025, 3, 9>>, <<2025, 3, 10>>, <<2025, 4, 9>>,
       <<2025, 11, 3>>, <<2025, 6, 21>>, <<2025, 9, 3>> >>

Dates == { DateList[i] : i \in 1..NumDates }

\* Configurations a run may start from: Tampa and New York are entries of
\* Config.get_us_cities, the third is a polar location.
SetupList ==
    << [latitude |-> 27950600, longitude |-> -82457200, timezone |-> -5, method |-> "ISNA"],
       [latitude |-> 78223200, longitude |-> 15626700, timezone |-> 1, method |-> "MWL"],
       [latitude |-> 40712800, longitude |-> -74006000, timezone |-> -5, method |-> "Mecca"],
       [latitude |-> 27950600, longitude |-> -82457200, timezone |-> -5, method |-> "Egypt"],
       [latitude |-> 78223200, longitude |-> 15626700, timezone |-> 1, method |-> "ISNA"] >>

Setups == { SetupList[i] : i \in 1..NumSetups }

\* ------------------------------------------------------------------ tables
\* 12 - equation of time of sun_position, per date, in micro-hours.
TransitTable ==
    <<2025, 3, 9>> :> 12176175 @@
    <<2025, 3, 10>> :> 12171950 @@
    <<2025, 4, 9>> :> 12027366 @@
    <<2025, 11, 3>> :> 11725920 @@
    <<2025, 6, 21>> :> 12029501 @@
    <<2025, 9, 3>> :> 11990722 @@
    <<2025, 3, 11>> :> 12167632 @@
    <<2025, 4, 10>> :> 12022862 @@
    <<2025, 11, 4>> :> 11726010 @@
    <<2025, 6, 22>> :> 12033127 @@
    <<2025, 9, 4>> :> 11985243

\* cos_h of calculate_horizon_time before the clamp, in millionths, per
\* <<latitude, year, month, day, angle in milli-degrees>>; values beyond
\* +/- 2000 are recorded as +/- 2000.
CosHourAngleTable ==
    (<<27950600, 2025, 3, 9, -833>> :> 25072 @@
     <<27950600, 2025, 3, 9, -15000>> :> -252314 @@
     <<27950600, 2025, 3, 9, -17000>> :> -290414 @@
     <<27950600, 2025, 3, 9, -18000>> :> -309315 @@
     <<27950600, 2025, 3, 9, -18500>> :> -318726 @@
     <<27950600, 2025, 3, 9, -90000>> :> -1093942 @@
     <<27950600, 2025, 3, 10, -833>> :> 21433 @@
     <<27950600, 2025, 3, 10, -15000>> :> -255811 @@
     <<27950600, 2025, 3, 10, -17000>> :> -293891 @@
     <<27950600, 2025, 3, 10, -18000>> :> -312783 @@
     <<27950600, 2025, 3, 10, -18500>> :> -322189 @@
     <<27950600, 2025, 3, 10, -90000>> :> -1097008 @@
     <<27950600, 2025, 4, 9, -833>> :> -87344 @@
     <<27950600, 2025, 4, 9, -15000>> :> -366330 @@
     <<27950600, 2025, 4, 9, -17000>> :> -404649 @@
     <<27950600, 2025, 4, 9, -18000>> :> -423659 @@
     <<27950600, 2025, 4, 9, -18500>> :> -433124 @@
     <<27950600, 2025, 4, 9, -90000>> :> -1212809 @@
     <<27950600, 2025, 11, 3, -833>> :> 125852 @@
     <<27950600, 2025, 11, 3, -15000>> :> -160539 @@
     <<27950600, 2025, 11, 3, -17000>> :> -199876 @@
     <<27950600, 2025, 11, 3, -18000>> :> -219391 @@
     <<27950600, 2025, 11, 3, -18500>> :> -229107 @@
     <<27950600, 2025, 11, 3, -90000>> :> -1029489) @@
    (<<27950600, 2025, 6, 21, -833>> :> -247980 @@
     <<27950600, 2025, 6, 21, -15000>> :> -549390 @@
     <<27950600, 2025, 6, 21, -17000>> :> -590789 @@
     <<27950600, 2025, 6, 21, -18000>> :> -611327 @@
     <<27950600, 2025, 6, 21, -18500>> :> -621553 @@
     <<27950600, 2025, 6, 21, -90000>> :> -1463907 @@
     <<27950600, 2025, 9, 3, -833>> :> -86734 @@
     <<27950600, 2025, 9, 3, -15000>> :> -365678 @@
     <<27950600, 2025, 9, 3, -17000>> :> -403991 @@
     <<27950600, 2025, 9, 3, -18000>> :> -422998 @@
     <<27950600, 2025, 9, 3, -18500>> :> -432462 @@
     <<27950600, 2025, 9, 3, -90000>> :> -1212030 @@
     <<27950600, 2025, 3, 11, -833>> :> 17790 @@
     <<27950600, 2025, 3, 11, -15000>> :> -259326 @@
     <<27950600, 2025, 3, 11, -17000>> :> -297388 @@
     <<27950600, 2025, 3, 11, -18000>> :> -316271 @@
     <<27950600, 2025, 3, 11, -18500>> :> -325672 @@
     <<27950600, 2025, 3, 11, -90000>> :> -1100130 @@
     <<27950600, 2025, 4, 10, -833>> :> -90857 @@
     <<27950600, 2025, 4, 10, -15000>> :> -370090 @@
     <<27950600, 2025, 4, 10, -17000>> :> -408443 @@
     <<27950600, 2025, 4, 10, -18000>> :> -427470 @@
     <<27950600, 2025, 4, 10, -18500>> :> -436943 @@
     <<27950600, 2025, 4, 10, -90000>> :> -1217317) @@
    (<<27950600, 2025, 11, 4, -833>> :> 128911 @@
     <<27950600, 2025, 11, 4, -15000>> :> -157902 @@
     <<27950600, 2025, 11, 4, -17000>> :> -197297 @@
     <<27950600, 2025, 11, 4, -18000>> :> -216840 @@
     <<27950600, 2025, 11, 4, -18500>> :> -226571 @@
     <<27950600, 2025, 11, 4, -90000>> :> -1028133 @@
     <<27950600, 2025, 6, 22, -833>> :> -247949 @@
     <<27950600, 2025, 6, 22, -15000>> :> -549353 @@
     <<27950600, 2025, 6, 22, -17000>> :> -590751 @@
     <<27950600, 2025, 6, 22, -18000>> :> -611289 @@
     <<27950600, 2025, 6, 22, -18500>> :> -621515 @@
     <<27950600, 2025, 6, 22, -90000>> :> -1463851 @@
     <<27950600, 2025, 9, 4, -833>> :> -83257 @@
     <<27950600, 2025, 9, 4, -15000>> :> -361970 @@
     <<27950600, 2025, 9, 4, -17000>> :> -400252 @@
     <<27950600, 2025, 9, 4, -18000>> :> -419243 @@
     <<27950600, 2025, 9, 4, -18500>> :> -428699 @@
     <<27950600, 2025, 9, 4, -90000>> :> -1207622 @@
     <<78223200, 2025, 3, 9, -833>> :> 304424 @@
     <<78223200, 2025, 3, 9, -15000>> :> -896117 @@
     <<78223200, 2025, 3, 9, -17000>> :> -1061014 @@
     <<78223200, 2025, 3, 9, -18000>> :> -1142819 @@
     <<78223200, 2025, 3, 9, -18500>> :> -1183549 @@
     <<78223200, 2025, 3, 9, -90000>> :> -4538716) @@
    (<<78223200, 2025, 3, 10, -833>> :> 271492 @@
     <<78223200, 2025, 3, 10, -15000>> :> -928434 @@
     <<78223200, 2025, 3, 10, -17000>> :> -1093247 @@
     <<78223200, 2025, 3, 10, -18000>> :> -1175010 @@
     <<78223200, 2025, 3, 10, -18500>> :> -1215720 @@
     <<78223200, 2025, 3, 10, -90000>> :> -4569168 @@
     <<78223200, 2025, 4, 9, -833>> :> -711323 @@
     <<78223200, 2025, 4, 9, -15000>> :> -1918784 @@
     <<78223200, 2025, 4, 9, -17000>> :> -2084632 @@
     <<78223200, 2025, 4, 9, -18000>> :> -2166909 @@
     <<78223200, 2025, 4, 9, -18500>> :> -2207874 @@
     <<78223200, 2025, 4, 9, -90000>> :> -5582381 @@
     <<78223200, 2025, 11, 3, -833>> :> 1217959 @@
     <<78223200, 2025, 11, 3, -15000>> :> -21556 @@
     <<78223200, 2025, 11, 3, -17000>> :> -191806 @@
     <<78223200, 2025, 11, 3, -18000>> :> -276267 @@
     <<78223200, 2025, 11, 3, -18500>> :> -318320 @@
     <<78223200, 2025, 11, 3, -90000>> :> -3782408 @@
     <<78223200, 2025, 6, 21, -833>> :> -2157112 @@
     <<78223200, 2025, 6, 21, -15000>> :> -3461626 @@
     <<78223200, 2025, 6, 21, -17000>> :> -3640804 @@
     <<78223200, 2025, 6, 21, -18000>> :> -3729694 @@
     <<78223200, 2025, 6, 21, -18500>> :> -3773952 @@
     <<78223200, 2025, 6, 21, -90000>> :> -7419694) @@
    (<<78223200, 2025, 9, 3, -833>> :> -705817 @@
     <<78223200, 2025, 9, 3, -15000>> :> -1913097 @@
     <<78223200, 2025, 9, 3, -17000>> :> -2078920 @@
     <<78223200, 2025, 9, 3, -18000>> :> -2161184 @@
     <<78223200, 2025, 9, 3, -18500>> :> -2202143 @@
     <<78223200, 2025, 9, 3, -90000>> :> -5576146 @@
     <<78223200, 2025, 3, 11, -833>> :> 238517 @@
     <<78223200, 2025, 3, 11, -15000>> :> -960849 @@
     <<78223200, 2025, 3, 11, -17000>> :> -1125585 @@
     <<78223200, 2025, 3, 11, -18000>> :> -1207310 @@
     <<78223200, 2025, 3, 11, -18500>> :> -1248001 @@
     <<78223200, 2025, 3, 11, -90000>> :> -4599887 @@
     <<78223200, 2025, 4, 10, -833>> :> -743010 @@
     <<78223200, 2025, 4, 10, -15000>> :> -1951539 @@
     <<78223200, 2025, 4, 10, -17000>> :> -2117534 @@
     <<78223200, 2025, 4, 10, -18000>> :> -2199883 @@
     <<78223200, 2025, 4, 10, -18500>> :> -2240884 @@
     <<78223200, 2025, 4, 10, -90000>> :> -5618377 @@
     <<78223200, 2025, 11, 4, -833>> :> 1245730 @@
     <<78223200, 2025, 11, 4, -15000>> :> 4388 @@
     <<78223200, 2025, 11, 4, -17000>> :> -166114 @@
     <<78223200, 2025, 11, 4, -18000>> :> -250699 @@
     <<78223200, 2025, 11, 4, -18500>> :> -292813 @@
     <<78223200, 2025, 11, 4, -90000>> :> -3762008) @@
    (<<78223200, 2025, 6, 22, -833>> :> -2156838 @@
     <<78223200, 2025, 6, 22, -15000>> :> -3461325 @@
     <<78223200, 2025, 6, 22, -17000>> :> -3640499 @@
     <<78223200, 2025, 6, 22, -18000>> :> -3729387 @@
     <<78223200, 2025, 6, 22, -18500>> :> -3773644 @@
     <<78223200, 2025, 6, 22, -90000>> :> -7419311 @@
     <<78223200, 2025, 9, 4, -833>> :> -674450 @@
     <<78223200, 2025, 9, 4, -15000>> :> -1880732 @@
     <<78223200, 2025, 9, 4, -17000>> :> -2046418 @@
     <<78223200, 2025, 9, 4, -18000>> :> -2128614 @@
     <<78223200, 2025, 9, 4, -18500>> :> -2169539 @@
     <<78223200, 2025, 9, 4, -90000>> :> -5540751 @@
     <<40712800, 2025, 3, 9, -833>> :> 48196 @@
     <<40712800, 2025, 3, 9, -15000>> :> -275067 @@
     <<40712800, 2025, 3, 9, -17000>> :> -319468 @@
     <<40712800, 2025, 3, 9, -18000>> :> -341496 @@
     <<40712800, 2025, 3, 9, -18500>> :> -352463 @@
     <<40712800, 2025, 3, 9, -90000>> :> -1255891 @@
     <<40712800, 2025, 3, 10, -833>> :> 42291 @@
     <<40712800, 2025, 3, 10, -15000>> :> -280807 @@
     <<40712800, 2025, 3, 10, -17000>> :> -325185 @@
     <<40712800, 2025, 3, 10, -18000>> :> -347201 @@
     <<40712800, 2025, 3, 10, -18500>> :> -358163 @@
     <<40712800, 2025, 3, 10, -90000>> :> -1261128) @@
    (<<40712800, 2025, 4, 9, -833>> :> -134076 @@
     <<40712800, 2025, 4, 9, -15000>> :> -459202 @@
     <<40712800, 2025, 4, 9, -17000>> :> -503859 @@
     <<40712800, 2025, 4, 9, -18000>> :> -526013 @@
     <<40712800, 2025, 4, 9, -18500>> :> -537044 @@
     <<40712800, 2025, 4, 9, -90000>> :> -1445680 @@
     <<40712800, 2025, 11, 3, -833>> :> 211884 @@
     <<40712800, 2025, 11, 3, -15000>> :> -121873 @@
     <<40712800, 2025, 11, 3, -17000>> :> -167716 @@
     <<40712800, 2025, 11, 3, -18000>> :> -190458 @@
     <<40712800, 2025, 11, 3, -18500>> :> -201781 @@
     <<40712800, 2025, 11, 3, -90000>> :> -1134539 @@
     <<40712800, 2025, 6, 21, -833>> :> -393982 @@
     <<40712800, 2025, 6, 21, -15000>> :> -745242 @@
     <<40712800, 2025, 6, 21, -17000>> :> -793489 @@
     <<40712800, 2025, 6, 21, -18000>> :> -817423 @@
     <<40712800, 2025, 6, 21, -18500>> :> -829341 @@
     <<40712800, 2025, 6, 21, -90000>> :> -1811011 @@
     <<40712800, 2025, 9, 3, -833>> :> -133087 @@
     <<40712800, 2025, 9, 3, -15000>> :> -458165 @@
     <<40712800, 2025, 9, 3, -17000>> :> -502815 @@
     <<40712800, 2025, 9, 3, -18000>> :> -524966 @@
     <<40712800, 2025, 9, 3, -18500>> :> -535995 @@
     <<40712800, 2025, 9, 3, -90000>> :> -1444495) @@
    (<<40712800, 2025, 3, 11, -833>> :> 36378 @@
     <<40712800, 2025, 3, 11, -15000>> :> -286569 @@
     <<40712800, 2025, 3, 11, -17000>> :> -330927 @@
     <<40712800, 2025, 3, 11, -18000>> :> -352932 @@
     <<40712800, 2025, 3, 11, -18500>> :> -363889 @@
     <<40712800, 2025, 3, 11, -90000>> :> -1266434 @@
     <<40712800, 2025, 4, 10, -833>> :> -139766 @@
     <<40712800, 2025, 4, 10, -15000>> :> -465180 @@
     <<40712800, 2025, 4, 10, -17000>> :> -509877 @@
     <<40712800, 2025, 4, 10, -18000>> :> -532051 @@
     <<40712800, 2025, 4, 10, -18500>> :> -543091 @@
     <<40712800, 2025, 4, 10, -90000>> :> -1452531 @@
     <<40712800, 2025, 11, 4, -833>> :> 216857 @@
     <<40712800, 2025, 11, 4, -15000>> :> -117393 @@
     <<40712800, 2025, 11, 4, -17000>> :> -163303 @@
     <<40712800, 2025, 11, 4, -18000>> :> -186079 @@
     <<40712800, 2025, 11, 4, -18500>> :> -197419 @@
     <<40712800, 2025, 11, 4, -90000>> :> -1131551 @@
     <<40712800, 2025, 6, 22, -833>> :> -393933 @@
     <<40712800, 2025, 6, 22, -15000>> :> -745186 @@
     <<40712800, 2025, 6, 22, -17000>> :> -793431 @@
     <<40712800, 2025, 6, 22, -18000>> :> -817365 @@
     <<40712800, 2025, 6, 22, -18500>> :> -829282 @@
     <<40712800, 2025, 6, 22, -90000>> :> -1810932) @@
    (<<40712800, 2025, 9, 4, -833>> :> -127454 @@
     <<40712800, 2025, 9, 4, -15000>> :> -452263 @@
     <<40712800, 2025, 9, 4, -17000>> :> -496876 @@
     <<40712800, 2025, 9, 4, -18000>> :> -519009 @@
     <<40712800, 2025, 9, 4, -18500>> :> -530029 @@
     <<40712800, 2025, 9, 4, -90000>> :> -1437777 @@
     <<90000000, 2025, 3, 9, -833>> :> 2000000000 @@
     <<90000000, 2025, 3, 9, -15000>> :> -2000000000 @@
     <<90000000, 2025, 3, 9, -17000>> :> -2000000000 @@
     <<90000000, 2025, 3, 9, -18000>> :> -2000000000 @@
     <<90000000, 2025, 3, 9, -18500>> :> -2000000000 @@
     <<90000000, 2025, 3, 9, -90000>> :> -2000000000 @@
     <<90000000, 2025, 3, 10, -833>> :> 2000000000 @@
     <<90000000, 2025, 3, 10, -15000>> :> -2000000000 @@
     <<90000000, 2025, 3, 10, -17000>> :> -2000000000 @@
     <<90000000, 2025, 3, 10, -18000>> :> -2000000000 @@
     <<90000000, 2025, 3, 10, -18500>> :> -2000000000 @@
     <<90000000, 2025, 3, 10, -90000>> :> -2000000000 @@
     <<90000000, 2025, 4, 9, -833>> :> -2000000000 @@
     <<90000000, 2025, 4, 9, -15000>> :> -2000000000 @@
     <<90000000, 2025, 4, 9, -17000>> :> -2000000000 @@
     <<90000000, 2025, 4, 9, -18000>> :> -2000000000 @@
     <<90000000, 2025, 4, 9, -18500>> :> -2000000000 @@
     <<90000000, 2025, 4, 9, -90000>> :> -2000000000) @@
    (<<90000000, 2025, 11, 3, -833>> :> 2000000000 @@
     <<90000000, 2025, 11, 3, -15000>> :> 2000000000 @@
     <<90000000, 2025, 11, 3, -17000>> :> -2000000000 @@
     <<90000000, 2025, 11, 3, -18000>> :> -2000000000 @@
     <<90000000, 2025, 11, 3, -18500>> :> -2000000000 @@
     <<90000000, 2025, 11, 3, -90000>> :> -2000000000 @@
     <<90000000, 2025, 6, 21, -833>> :> -2000000000 @@
     <<90000000, 2025, 6, 21, -15000>> :> -2000000000 @@
     <<90000000, 2025, 6, 21, -17000>> :> -2000000000 @@
     <<90000000, 2025, 6, 21, -18000>> :> -2000000000 @@
     <<90000000, 2025, 6, 21, -18500>> :> -2000000000 @@
     <<90000000, 2025, 6, 21, -90000>> :> -2000000000 @@
     <<90000000, 2025, 9, 3, -833>> :> -2000000000 @@
     <<90000000, 2025, 9, 3, -15000>> :> -2000000000 @@
     <<90000000, 2025, 9, 3, -17000>> :> -2000000000 @@
     <<90000000, 2025, 9, 3, -18000>> :> -2000000000 @@
     <<90000000, 2025, 9, 3, -18500>> :> -2000000000 @@
     <<90000000, 2025, 9, 3, -90000>> :> -2000000000 @@
     <<90000000, 2025, 3, 11, -833>> :> 2000000000 @@
     <<90000000, 2025, 3, 11, -15000>> :> -2000000000 @@
     <<90000000, 2025, 3, 11, -17000>> :> -2000000000 @@
     <<90000000, 2025, 3, 11, -18000>> :> -2000000000 @@
     <<90000000, 2025, 3, 11, -18500>> :> -2000000000 @@
     <<90000000, 2025, 3, 11, -90000>> :> -2000000000) @@
    (<<90000000, 2025, 4, 10, -833>> :> -2000000000 @@
     <<90000000, 2025, 4, 10, -15000>> :> -2000000000 @@
     <<90000000, 2025, 4, 10, -17000>> :> -2000000000 @@
     <<90000000, 2025, 4, 10, -18000>> :> -2000000000 @@
     <<90000000, 2025, 4, 10, -18500>> :> -2000000000 @@
     <<90000000, 2025, 4, 10, -90000>> :> -2000000000 @@
     <<90000000, 2025, 11, 4, -833>> :> 2000000000 @@
     <<90000000, 2025, 11, 4, -15000>> :> 2000000000 @@
     <<90000000, 2025, 11, 4, -17000>> :> -2000000000 @@
     <<90000000, 2025, 11, 4, -18000>> :> -2000000000 @@
     <<90000000, 2025, 11, 4, -18500>> :> -2000000000 @@
     <<90000000, 2025, 11, 4, -90000>> :> -2000000000 @@
     <<90000000, 2025, 6, 22, -833>> :> -2000000000 @@
     <<90000000, 2025, 6, 22, -15000>> :> -2000000000 @@
     <<90000000, 2025, 6, 22, -17000>> :> -2000000000 @@
     <<90000000, 2025, 6, 22, -18000>> :> -2000000000 @@
     <<90000000, 2025, 6, 22, -18500>> :> -2000000000 @@
     <<90000000, 2025, 6, 22, -90000>> :> -2000000000 @@
     <<90000000, 2025, 9, 4, -833>> :> -2000000000 @@
     <<90000000, 2025, 9, 4, -15000>> :> -2000000000 @@
     <<90000000, 2025, 9, 4, -17000>> :> -2000000000 @@
     <<90000000, 2025, 9, 4, -18000>> :> -2000000000 @@
     <<90000000, 2025, 9, 4, -18500>> :> -2000000000 @@
     <<90000000, 2025, 9, 4, -90000>> :> -2000000000) @@
    (<<-90000000, 2025, 3, 9, -833>> :> -2000000000 @@
     <<-90000000, 2025, 3, 9, -15000>> :> -2000000000 @@
     <<-90000000, 2025, 3, 9, -17000>> :> -2000000000 @@
     <<-90000000, 2025, 3, 9, -18000>> :> -2000000000 @@
     <<-90000000, 2025, 3, 9, -18500>> :> -2000000000 @@
     <<-90000000, 2025, 3, 9, -90000>> :> -2000000000 @@
     <<-90000000, 2025, 3, 10, -833>> :> -2000000000 @@
     <<-90000000, 2025, 3, 10, -15000>> :> -2000000000 @@
     <<-90000000, 2025, 3, 10, -17000>> :> -2000000000 @@
     <<-90000000, 2025, 3, 10, -18000>> :> -2000000000 @@
     <<-90000000, 2025, 3, 10, -18500>> :> -2000000000 @@
     <<-90000000, 2025, 3, 10, -90000>> :> -2000000000 @@
     <<-90000000, 2025, 4, 9, -833>> :> 2000000000 @@
     <<-90000000, 2025, 4, 9, -15000>> :> -2000000000 @@
     <<-90000000, 2025, 4, 9, -17000>> :> -2000000000 @@
     <<-90000000, 2025, 4, 9, -18000>> :> -2000000000 @@
     <<-90000000, 2025, 4, 9, -18500>> :> -2000000000 @@
     <<-90000000, 2025, 4, 9, -90000>> :> -2000000000 @@
     <<-90000000, 2025, 11, 3, -833>> :> -2000000000 @@
     <<-90000000, 2025, 11, 3, -15000>> :> -2000000000 @@
     <<-90000000, 2025, 11, 3, -17000>> :> -2000000000 @@
     <<-90000000, 2025, 11, 3, -18000>> :> -2000000000 @@
     <<-90000000, 2025, 11, 3, -18500>> :> -2000000000 @@
     <<-90000000, 2025, 11, 3, -90000>> :> -2000000000) @@
    (<<-90000000, 2025, 6, 21, -833>> :> 2000000000 @@
     <<-90000000, 2025, 6, 21, -15000>> :> 2000000000 @@
     <<-90000000, 2025, 6, 21, -17000>> :> 2000000000 @@
     <<-90000000, 2025, 6, 21, -18000>> :> 2000000000 @@
     <<-90000000, 2025, 6, 21, -18500>> :> 2000000000 @@
     <<-90000000, 2025, 6, 21, -90000>> :> -2000000000 @@
     <<-90000000, 2025, 9, 3, -833>> :> 2000000000 @@
     <<-90000000, 2025, 9, 3, -15000>> :> -2000000000 @@
     <<-90000000, 2025, 9, 3, -17000>> :> -2000000000 @@
     <<-90000000, 2025, 9, 3, -18000>> :> -2000000000 @@
     <<-90000000, 2025, 9, 3, -18500>> :> -2000000000 @@
     <<-90000000, 2025, 9, 3, -90000>> :> -2000000000 @@
     <<-90000000, 2025, 3, 11, -833>> :> -2000000000 @@
     <<-90000000, 2025, 3, 11, -15000>> :> -2000000000 @@
     <<-90000000, 2025, 3, 11, -17000>> :> -2000000000 @@
     <<-90000000, 2025, 3, 11, -18000>> :> -2000000000 @@
     <<-90000000, 2025, 3, 11, -18500>> :> -2000000000 @@
     <<-90000000, 2025, 3, 11, -90000>> :> -2000000000 @@
     <<-90000000, 2025, 4, 10, -833>> :> 2000000000 @@
     <<-90000000, 2025, 4, 10, -15000>> :> -2000000000 @@
     <<-90000000, 2025, 4, 10, -17000>> :> -2000000000 @@
     <<-90000000, 2025, 4, 10, -18000>> :> -2000000000 @@
     <<-90000000, 2025, 4, 10, -18500>> :> -2000000000 @@
     <<-90000000, 2025, 4, 10, -90000>> :> -2000000000) @@
    (<<-90000000, 2025, 11, 4, -833>> :> -2000000000 @@
     <<-90000000, 2025, 11, 4, -15000>> :> -2000000000 @@
     <<-90000000, 2025, 11, 4, -17000>> :> -2000000000 @@
     <<-90000000, 2025, 11, 4, -18000>> :> -2000000000 @@
     <<-90000000, 2025, 11, 4, -18500>> :> -2000000000 @@
     <<-90000000, 2025, 11, 4, -90000>> :> -2000000000 @@
     <<-90000000, 2025, 6, 22, -833>> :> 2000000000 @@
     <<-90000000, 2025, 6, 22, -15000>> :> 2000000000 @@
     <<-90000000, 2025, 6, 22, -17000>> :> 2000000000 @@
     <<-90000000, 2025, 6, 22, -18000>> :> 2000000000 @@
     <<-90000000, 2025, 6, 22, -18500>> :> 2000000000 @@
     <<-90000000, 2025, 6, 22, -90000>> :> -2000000000 @@
     <<-90000000, 2025, 9, 4, -833>> :> 2000000000 @@
     <<-90000000, 2025, 9, 4, -15000>> :> -2000000000 @@
     <<-90000000, 2025, 9, 4, -17000>> :> -2000000000 @@
     <<-90000000, 2025, 9, 4, -18000>> :> -2000000000 @@
     <<-90000000, 2025, 9, 4, -18500>> :> -2000000000 @@
     <<-90000000, 2025, 9, 4, -90000>> :> -2000000000)

\* cos_h of the Asr computation of calculate_times before the clamp, in
\* millionths, per <<latitude, year, month, day, asr_madhab>>.
AsrCosHourAngleTable ==
    (<<27950600, 2025, 3, 9, 1>> :> 633955 @@
     <<27950600, 2025, 3, 9, 2>> :> 444428 @@
     <<27950600, 2025, 3, 10, 1>> :> 632531 @@
     <<27950600, 2025, 3, 10, 2>> :> 441854 @@
     <<27950600, 2025, 4, 9, 1>> :> 602259 @@
     <<27950600, 2025, 4, 9, 2>> :> 373076 @@
     <<27950600, 2025, 11, 3, 1>> :> 681530 @@
     <<27950600, 2025, 11, 3, 2>> :> 521201 @@
     <<27950600, 2025, 6, 21, 1>> :> 608713 @@
     <<27950600, 2025, 6, 21, 2>> :> 304813 @@
     <<27950600, 2025, 9, 3, 1>> :> 602356 @@
     <<27950600, 2025, 9, 3, 2>> :> 373414 @@
     <<27950600, 2025, 3, 11, 1>> :> 631129 @@
     <<27950600, 2025, 3, 11, 2>> :> 439293 @@
     <<27950600, 2025, 4, 10, 1>> :> 601718 @@
     <<27950600, 2025, 4, 10, 2>> :> 371141 @@
     <<27950600, 2025, 11, 4, 1>> :> 683176 @@
     <<27950600, 2025, 11, 4, 2>> :> 523669 @@
     <<27950600, 2025, 6, 22, 1>> :> 608706 @@
     <<27950600, 2025, 6, 22, 2>> :> 304822 @@
     <<27950600, 2025, 9, 4, 1>> :> 602926 @@
     <<27950600, 2025, 9, 4, 2>> :> 375351 @@
     <<78223200, 2025, 3, 9, 1>> :> 930119 @@
     <<78223200, 2025, 3, 9, 2>> :> 874238) @@
    (<<78223200, 2025, 3, 10, 1>> :> 923013 @@
     <<78223200, 2025, 3, 10, 2>> :> 862082 @@
     <<78223200, 2025, 4, 9, 1>> :> 604907 @@
     <<78223200, 2025, 4, 9, 2>> :> 359827 @@
     <<78223200, 2025, 11, 3, 1>> :> 982237 @@
     <<78223200, 2025, 11, 3, 2>> :> 962177 @@
     <<78223200, 2025, 6, 21, 1>> :> -37703 @@
     <<78223200, 2025, 6, 21, 2>> :> -579454 @@
     <<78223200, 2025, 9, 3, 1>> :> 607112 @@
     <<78223200, 2025, 9, 3, 2>> :> 363147 @@
     <<78223200, 2025, 3, 11, 1>> :> 915604 @@
     <<78223200, 2025, 3, 11, 2>> :> 849489 @@
     <<78223200, 2025, 4, 10, 1>> :> 592156 @@
     <<78223200, 2025, 4, 10, 2>> :> 340658 @@
     <<78223200, 2025, 11, 4, 1>> :> 978597 @@
     <<78223200, 2025, 11, 4, 2>> :> 954131 @@
     <<78223200, 2025, 6, 22, 1>> :> -37576 @@
     <<78223200, 2025, 6, 22, 2>> :> -579270 @@
     <<78223200, 2025, 9, 4, 1>> :> 619606 @@
     <<78223200, 2025, 9, 4, 2>> :> 381983 @@
     <<40712800, 2025, 3, 9, 1>> :> 657642 @@
     <<40712800, 2025, 3, 9, 2>> :> 485057 @@
     <<40712800, 2025, 3, 10, 1>> :> 654659 @@
     <<40712800, 2025, 3, 10, 2>> :> 480644) @@
    (<<40712800, 2025, 4, 9, 1>> :> 574388 @@
     <<40712800, 2025, 4, 9, 2>> :> 354811 @@
     <<40712800, 2025, 11, 3, 1>> :> 744356 @@
     <<40712800, 2025, 11, 3, 2>> :> 610026 @@
     <<40712800, 2025, 6, 21, 1>> :> 499017 @@
     <<40712800, 2025, 6, 21, 2>> :> 197973 @@
     <<40712800, 2025, 9, 3, 1>> :> 574781 @@
     <<40712800, 2025, 9, 3, 2>> :> 355478 @@
     <<40712800, 2025, 3, 11, 1>> :> 651688 @@
     <<40712800, 2025, 3, 11, 2>> :> 476235 @@
     <<40712800, 2025, 4, 10, 1>> :> 572141 @@
     <<40712800, 2025, 4, 10, 2>> :> 350982 @@
     <<40712800, 2025, 11, 4, 1>> :> 747050 @@
     <<40712800, 2025, 11, 4, 2>> :> 613854 @@
     <<40712800, 2025, 6, 22, 1>> :> 499026 @@
     <<40712800, 2025, 6, 22, 2>> :> 198000 @@
     <<40712800, 2025, 9, 4, 1>> :> 577034 @@
     <<40712800, 2025, 9, 4, 2>> :> 359286 @@
     <<90000000, 2025, 3, 9, 1>> :> -2000000000 @@
     <<90000000, 2025, 3, 9, 2>> :> -2000000000 @@
     <<90000000, 2025, 3, 10, 1>> :> -2000000000 @@
     <<90000000, 2025, 3, 10, 2>> :> -2000000000 @@
     <<90000000, 2025, 4, 9, 1>> :> -2000000000 @@
     <<90000000, 2025, 4, 9, 2>> :> -2000000000) @@
    (<<90000000, 2025, 11, 3, 1>> :> -2000000000 @@
     <<90000000, 2025, 11, 3, 2>> :> -2000000000 @@
     <<90000000, 2025, 6, 21, 1>> :> -2000000000 @@
     <<90000000, 2025, 6, 21, 2>> :> -2000000000 @@
     <<90000000, 2025, 9, 3, 1>> :> -2000000000 @@
     <<90000000, 2025, 9, 3, 2>> :> -2000000000 @@
     <<90000000, 2025, 3, 11, 1>> :> -2000000000 @@
     <<90000000, 2025, 3, 11, 2>> :> -2000000000 @@
     <<90000000, 2025, 4, 10, 1>> :> -2000000000 @@
     <<90000000, 2025, 4, 10, 2>> :> -2000000000 @@
     <<90000000, 2025, 11, 4, 1>> :> -2000000000 @@
     <<90000000, 2025, 11, 4, 2>> :> -2000000000 @@
     <<90000000, 2025, 6, 22, 1>> :> -2000000000 @@
     <<90000000, 2025, 6, 22, 2>> :> -2000000000 @@
     <<90000000, 2025, 9, 4, 1>> :> -2000000000 @@
     <<90000000, 2025, 9, 4, 2>> :> -2000000000 @@
     <<-90000000, 2025, 3, 9, 1>> :> -2000000000 @@
     <<-90000000, 2025, 3, 9, 2>> :> -2000000000 @@
     <<-90000000, 2025, 3, 10, 1>> :> -2000000000 @@
     <<-90000000, 2025, 3, 10, 2>> :> -2000000000 @@
     <<-90000000, 2025, 4, 9, 1>> :> -2000000000 @@
     <<-90000000, 2025, 4, 9, 2>> :> -2000000000 @@
     <<-90000000, 2025, 11, 3, 1>> :> -2000000000 @@
     <<-90000000, 2025, 11, 3, 2>> :> -2000000000) @@
    (<<-90000000, 2025, 6, 21, 1>> :> -2000000000 @@
     <<-90000000, 2025, 6, 21, 2>> :> -2000000000 @@
     <<-90000000, 2025, 9, 3, 1>> :> -2000000000 @@
     <<-90000000, 2025, 9, 3, 2>> :> -2000000000 @@
     <<-90000000, 2025, 3, 11, 1>> :> -2000000000 @@
     <<-90000000, 2025, 3, 11, 2>> :> -2000000000 @@
     <<-90000000, 2025, 4, 10, 1>> :> -2000000000 @@
     <<-90000000, 2025, 4, 10, 2>> :> -2000000000 @@
     <<-90000000, 2025, 11, 4, 1>> :> -2000000000 @@
     <<-90000000, 2025, 11, 4, 2>> :> -2000000000 @@
     <<-90000000, 2025, 6, 22, 1>> :> -2000000000 @@
     <<-90000000, 2025, 6, 22, 2>> :> -2000000000 @@
     <<-90000000, 2025, 9, 4, 1>> :> -2000000000 @@
     <<-90000000, 2025, 9, 4, 2>> :> -2000000000)

\* math.degrees(math.acos(cos_h)) / 15 in micro-hours, per cos_h in millionths.
ArcCosHoursTable ==
    (-1000000 :> 12000000 @@
     -960849 :> 10927624 @@
     -928434 :> 10546129 @@
     -896117 :> 10243477 @@
     -829341 :> 9735399 @@
     -829282 :> 9735001 @@
     -817423 :> 9655176 @@
     -817365 :> 9654790 @@
     -793489 :> 9500845 @@
     -793431 :> 9500484 @@
     -745242 :> 9211990 @@
     -745186 :> 9211666 @@
     -743010 :> 9199227 @@
     -711323 :> 9022843 @@
     -705817 :> 8993033 @@
     -674450 :> 8827428 @@
     -621553 :> 8561972 @@
     -621515 :> 8561785 @@
     -611327 :> 8512365 @@
     -611289 :> 8512181 @@
     -590789 :> 8414198 @@
     -590751 :> 8414020 @@
     -579454 :> 8360805 @@
     -579270 :> 8359947) @@
    (-549390 :> 8221673 @@
     -549353 :> 8221505 @@
     -543091 :> 8192951 @@
     -537044 :> 8165506 @@
     -535995 :> 8160757 @@
     -532051 :> 8142938 @@
     -530029 :> 8133823 @@
     -526013 :> 8115763 @@
     -524966 :> 8111060 @@
     -519009 :> 8084384 @@
     -509877 :> 8043706 @@
     -503859 :> 8017041 @@
     -502815 :> 8012425 @@
     -496876 :> 7986235 @@
     -465180 :> 7848124 @@
     -459202 :> 7822374 @@
     -458165 :> 7817914 @@
     -452263 :> 7792595 @@
     -436943 :> 7727264 @@
     -433124 :> 7711064 @@
     -432462 :> 7708258 @@
     -428699 :> 7692333 @@
     -427470 :> 7687137 @@
     -423659 :> 7671053) @@
    (-422998 :> 7668267 @@
     -419243 :> 7652452 @@
     -408443 :> 7607134 @@
     -404649 :> 7591274 @@
     -403991 :> 7588526 @@
     -400252 :> 7572925 @@
     -393982 :> 7546833 @@
     -393933 :> 7546628 @@
     -370090 :> 7448073 @@
     -366330 :> 7432627 @@
     -365678 :> 7429950 @@
     -363889 :> 7422613 @@
     -361970 :> 7414745 @@
     -358163 :> 7399158 @@
     -352932 :> 7377783 @@
     -352463 :> 7375866 @@
     -347201 :> 7354412 @@
     -341496 :> 7331199 @@
     -330927 :> 7288334 @@
     -325672 :> 7267085 @@
     -325185 :> 7265117 @@
     -322189 :> 7253021 @@
     -319468 :> 7242049 @@
     -318726 :> 7239058) @@
    (-318320 :> 7237420 @@
     -316271 :> 7229167 @@
     -312783 :> 7215132 @@
     -309315 :> 7201196 @@
     -297388 :> 7153384 @@
     -293891 :> 7139402 @@
     -292813 :> 7135096 @@
     -290414 :> 7125515 @@
     -286569 :> 7110175 @@
     -280807 :> 7087222 @@
     -276267 :> 7069166 @@
     -275067 :> 7064399 @@
     -259326 :> 7002001 @@
     -255811 :> 6988108 @@
     -252314 :> 6974298 @@
     -250699 :> 6967922 @@
     -247980 :> 6957198 @@
     -247949 :> 6957078 @@
     -229107 :> 6882964 @@
     -226571 :> 6873016 @@
     -219391 :> 6844880 @@
     -216840 :> 6834899 @@
     -201781 :> 6776074 @@
     -199876 :> 6768644) @@
    (-197419 :> 6759068 @@
     -197297 :> 6758594 @@
     -191806 :> 6737213 @@
     -190458 :> 6731966 @@
     -186079 :> 6714933 @@
     -167716 :> 6643667 @@
     -166114 :> 6637461 @@
     -163303 :> 6626575 @@
     -160539 :> 6615877 @@
     -157902 :> 6605675 @@
     -139766 :> 6535618 @@
     -134076 :> 6513675 @@
     -133087 :> 6509864 @@
     -127454 :> 6488163 @@
     -121873 :> 6466680 @@
     -117393 :> 6449442 @@
     -90857 :> 6347526 @@
     -87344 :> 6334054 @@
     -86734 :> 6331713 @@
     -83257 :> 6318384 @@
     -37703 :> 6144045 @@
     -37576 :> 6143562 @@
     -21556 :> 6082341 @@
     4388 :> 5983237) @@
    (17790 :> 5932043 @@
     21433 :> 5918122 @@
     25072 :> 5904219 @@
     36378 :> 5861013 @@
     42291 :> 5838410 @@
     48196 :> 5815831 @@
     125852 :> 5517999 @@
     128911 :> 5506218 @@
     197973 :> 5238766 @@
     198000 :> 5238664 @@
     211884 :> 5184478 @@
     216857 :> 5165032 @@
     238517 :> 5080061 @@
     271492 :> 4949795 @@
     304424 :> 4818431 @@
     304813 :> 4816869 @@
     304822 :> 4816833 @@
     340658 :> 4672202 @@
     350982 :> 4630172 @@
     354811 :> 4614541 @@
     355478 :> 4611816 @@
     359286 :> 4596239 @@
     359827 :> 4594026 @@
     363147 :> 4580426) @@
    (371141 :> 4547597 @@
     373076 :> 4539636 @@
     373414 :> 4538243 @@
     375351 :> 4530266 @@
     381983 :> 4502891 @@
     439293 :> 4262745 @@
     441854 :> 4251846 @@
     444428 :> 4240880 @@
     476235 :> 4104013 @@
     480644 :> 4084834 @@
     485057 :> 4065583 @@
     499017 :> 4004330 @@
     499026 :> 4004292 @@
     521201 :> 3905806 @@
     523669 :> 3894751 @@
     572141 :> 3673354 @@
     574388 :> 3662877 @@
     574781 :> 3661042 @@
     577034 :> 3650517 @@
     592156 :> 3579320 @@
     601718 :> 3533793 @@
     602259 :> 3531204 @@
     602356 :> 3530740 @@
     602926 :> 3528015) @@
    (604907 :> 3518522 @@
     607112 :> 3507934 @@
     608706 :> 3500266 @@
     608713 :> 3500230 @@
     610026 :> 3493904 @@
     613854 :> 3475415 @@
     619606 :> 3447504 @@
     631129 :> 3391102 @@
     632531 :> 3384191 @@
     633955 :> 3377161 @@
     651688 :> 3288731 @@
     654659 :> 3273741 @@
     657642 :> 3258644 @@
     681530 :> 3135777 @@
     683176 :> 3127175 @@
     744356 :> 2793076 @@
     747050 :> 2777631 @@
     849489 :> 2122920 @@
     862082 :> 2029915 @@
     874238 :> 1936337 @@
     915604 :> 1580547 @@
     923013 :> 1508622 @@
     930119 :> 1436437 @@
     954131 :> 1161395) @@
    (962177 :> 1053906 @@
     978597 :> 791690 @@
     982237 :> 721009 @@
     1000000 :> 0)

\* ------------------------------------------------------------ clock strings
Digits == <<"0", "1", "2", "3", "4", "5", "6", "7", "8", "9">>

\* f"{n:02d}" for 0 <= n <= 99.
Format02d(n) == <<Digits[(n \div 10) + 1], Digits[(n % 10) + 1]>>

\* f"{h:02d}:{m:02d}".
FormatHHMM(h, m) == Format02d(h) \o <<":">> \o Format02d(m)

\* int() of one decimal digit.
DigitValues ==
    "0" :> 0 @@ "1" :> 1 @@ "2" :> 2 @@ "3" :> 3 @@ "4" :> 4 @@
    "5" :> 5 @@ "6" :> 6 @@ "7" :> 7 @@ "8" :> 8 @@ "9" :> 9

DigitValue(c) == DigitValues[c]

\* int(s) of a sequence of decimal digits.
RECURSIVE ParseInt(_)
ParseInt(s) ==
    IF Len(s) = 0 THEN 0
    ELSE ParseInt(SubSeq(s, 1, Len(s) - 1)) * 10 + DigitValue(s[Len(s)])

\* Position of the first ":" of s.
ColonAt(s) == CHOOSE i \in 1..Len(s) : s[i] = ":" /\ \A j \in 1..(i - 1) : s[j] # ":"

\* prayer_hour, prayer_min = map(int, prayer_time.split(':')), as
\* prayer_hour * 60 + prayer_min.
PrayerMinutes(s) ==
    LET c == ColonAt(s)
    IN  ParseInt(SubSeq(s, 1, c - 1)) * 60 + ParseInt(SubSeq(s, c + 1, Len(s)))

\* ---------------------------------------------------------------- schedules
\* key in dict
DictHas(dict, key) == \E i \in 1..Len(dict) : dict[i][1] = key

\* dict.get(key, default)
DictGet(dict, key, default) ==
    IF DictHas(dict, key)
    THEN dict[CHOOSE i \in 1..Len(dict) : dict[i][1] = key][2]
    ELSE default

\* ------------------------------------------------------------- prayer_times
\* self.methods: fajr and isha in milli-degrees (isha above 90 degrees would
\* mean minutes).
methods ==
    [ISNA |-> [fajr |-> 15000, isha |-> 15000],
     MWL |-> [fajr |-> 18000, isha |-> 17000],
     Mecca |-> [fajr |-> 18500, isha |-> 90000]]

\* The lookup falling back to another built-in profile.
MethodParams_default_MWL(name) ==
    IF name \in DOMAIN methods THEN methods[name] ELSE methods["MWL"]

\* self.methods.get(self.calculation_method, self.methods['ISNA'])
MethodParams(name) ==
    IF name \in DOMAIN methods THEN methods[name] ELSE methods["ISNA"]

\* What calculate_times returns when math.acos raises.
ValueError == <<"ValueError">>

\* The clamp with its lower branch missing.
ClampCosine_upper_only(cos_h) ==
    IF cos_h > Unit THEN Unit ELSE cos_h

\* "if cos_h > 1: cos_h = 1 / elif cos_h < -1: cos_h = -1"
ClampCosine(cos_h) ==
    IF cos_h > Unit THEN Unit
    ELSE IF cos_h < 0 - Unit THEN 0 - Unit
    ELSE cos_h

\* math.acos raises ValueError outside [-1, 1].
AcosRaises(cos_h) == cos_h < 0 - Unit \/ cos_h > Unit

\* math.degrees(math.acos(cos_h)) / 15
HourAngle(cos_h) == ArcCosHoursTable[cos_h]

\* calculate_horizon_time: transit -/+ the hour angle of the altitude angle.
calculate_horizon_time(self, transit, angle, date, after_transit) ==
    LET cos_h == ClampCosine(
                    CosHourAngleTable[<<self.latitude, date[1], date[2], date[3], angle>>])
        hour_angle == HourAngle(cos_h)
    IN  IF after_transit THEN transit + hour_angle ELSE transit - hour_angle

\* The two while loops of hours_to_time.
RECURSIVE Normalize24(_)
Normalize24(hours) ==
    IF hours < 0 THEN Normalize24(hours + 24 * Unit)
    ELSE IF hours >= 24 * Unit THEN Normalize24(hours - 24 * Unit)
    ELSE hours

\* hours_to_time without the longitude correction.
hours_to_time_without_longitude(self, hours, apply_timezone) ==
    LET shifted == IF apply_timezone
                   THEN hours + self.timezone * Unit
                   ELSE hours
        norm == Normalize24(shifted)
        h == norm \div Unit
        m == ((norm - h * Unit) * 60) \div Unit
    IN  FormatHHMM(h, m)

\* hours_to_time with the minute rounded to the nearest instead of truncated.
hours_to_time_rounded_minute(self, hours, apply_timezone) ==
    LET longitude_correction == (0 - self.longitude) \div 15
        shifted == IF apply_timezone
                   THEN hours + longitude_correction + self.timezone * Unit
                   ELSE hours
        norm == Normalize24(shifted)
        h == norm \div Unit
        m == ((norm - h * Unit) * 60 + Unit \div 2) \div Unit
    IN  FormatHHMM(h, m)

hours_to_time(self, hours, apply_timezone) ==
    LET longitude_correction == (0 - self.longitude) \div 15
        shifted == IF apply_timezone
                   THEN hours + longitude_correction + self.timezone * Unit
                   ELSE hours
        norm == Normalize24(shifted)
        h == norm \div Unit
        m == ((norm - h * Unit) * 60) \div Unit
    IN  FormatHHMM(h, m)

\* The values calculate_times passes to math.acos, directly and through
\* calculate_horizon_time.
AcosArguments(self, year, month, day) ==
    LET method == MethodParams(self.calculation_method)
        angles == {-833, 0 - method.fajr} \cup
                  (IF method.isha > 90 * Milli THEN {} ELSE {0 - method.isha})
    IN  { ClampCosine(CosHourAngleTable[<<self.latitude, year, month, day, a>>]) :
             a \in angles }
        \cup
        { ClampCosine(AsrCosHourAngleTable[<<self.latitude, year, month, day,
                                             self.asr_madhab>>]) }

calculate_times(self, year, month, day) ==
    LET date == <<year, month, day>>
        transit == TransitTable[date]
        sunrise_angle == -833
        sunrise == calculate_horizon_time(self, transit, sunrise_angle, date, FALSE)
        sunset == calculate_horizon_time(self, transit, sunrise_angle, date, TRUE)
        method == MethodParams(self.calculation_method)
        fajr == calculate_horizon_time(self, transit, 0 - method.fajr, date, FALSE)
        asr_cos_h == ClampCosine(
                        AsrCosHourAngleTable[<<self.latitude, year, month, day,
                                               self.asr_madhab>>])
        asr == transit + HourAngle(asr_cos_h)
        maghrib == sunset + (3 * Unit) \div 60
        isha == IF method.isha > 90 * Milli
                THEN maghrib + ((method.isha \div Milli) * Unit) \div 60
                ELSE calculate_horizon_time(self, transit, 0 - method.isha, date, TRUE)
    IN  IF \E cos_h \in AcosArguments(self, year, month, day) : AcosRaises(cos_h)
        THEN ValueError
        ELSE << <<"Fajr", hours_to_time(self, fajr, TRUE)>>,
                <<"Sunrise", hours_to_time(self, sunrise, TRUE)>>,
                <<"Dhuhr", hours_to_time(self, transit, TRUE)>>,
                <<"Asr", hours_to_time(self, asr, TRUE)>>,
                <<"Maghrib", hours_to_time(self, maghrib, TRUE)>>,
                <<"Isha", hours_to_time(self, isha, TRUE)>> >>

\* ---------------------------------------------------------------- dst_utils
\* Python's % (result has the sign of the divisor, as TLA+'s).
get_weekday(year, month, day) ==
    LET mm == IF month < 3 THEN month + 12 ELSE month
        yy == IF month < 3 THEN year - 1 ELSE year
        q == day
        k == yy % 100
        j == yy \div 100
        h == (q + ((13 * (mm + 1)) \div 5) + k + (k \div 4) + (j \div 4) - 2 * j) % 7
    IN  (h + 5) % 7

get_second_sunday_march(year) ==
    LET march_1_weekday == get_weekday(year, 3, 1)
        days_to_first_sunday == (7 - march_1_weekday) % 7
        first_sunday == 1 + days_to_first_sunday
    IN  first_sunday + 7

get_first_sunday_november(year) ==
    LET nov_1_weekday == get_weekday(year, 11, 1)
        days_to_first_sunday == (7 - nov_1_weekday) % 7
    IN  1 + days_to_first_sunday

\* is_dst_active with the first month test off by one (February passes it).
is_dst_active_from_february(year, month, day) ==
    IF month < 2 \/ month > 11 THEN FALSE
    ELSE IF month > 3 /\ month < 11 THEN TRUE
    ELSE IF month = 3 THEN day >= get_second_sunday_march(year)
    ELSE IF month = 11 THEN day < get_first_sunday_november(year)
    ELSE TRUE

is_dst_active(year, month, day) ==
    IF month < 3 \/ month > 11 THEN FALSE
    ELSE IF month > 3 /\ month < 11 THEN TRUE
    ELSE IF month = 3 THEN day >= get_second_sunday_march(year)
    ELSE IF month = 11 THEN day < get_first_sunday_november(year)
    ELSE TRUE

\* get_current_timezone_offset without the test of the setting.
get_current_timezone_offset_unconditional(base_timezone, daylight_saving_enabled, now) ==
    IF is_dst_active(now.year, now.month, now.day) THEN base_timezone + 1
    ELSE base_timezone

\* time.localtime() reads the RTC: now is the RTC's reading.
get_current_timezone_offset(base_timezone, daylight_saving_enabled, now) ==
    IF ~daylight_saving_enabled THEN base_timezone
    ELSE IF is_dst_active(now.year, now.month, now.day) THEN base_timezone + 1
    ELSE base_timezone

\* -------------------------------------------------------------- prayer_config
\* The settings file is a JSON object: here the sequence of its
\* <<key, value text>> members in the order json.dump writes them, a value
\* text being a sequence of characters (a string's body is one element between
\* its quotes).  Latitude and longitude are floats, held in micro-degrees.

\* Keys of Config.settings in insertion order (those the model keeps).
KeyOrder ==
    <<"location_name", "latitude", "longitude", "timezone", "daylight_saving",
      "method", "selected_city">>

FloatKeys == {"latitude", "longitude"}

\* str(n) for n >= 0.
RECURSIVE DigitsOf(_)
DigitsOf(n) ==
    IF n < 10 THEN <<Digits[n + 1]>>
    ELSE DigitsOf(n \div 10) \o <<Digits[(n % 10) + 1]>>

\* json.dump of an int.
FormatInt(n) == IF n < 0 THEN <<"-">> \o DigitsOf(0 - n) ELSE DigitsOf(n)

\* The six decimal places of a fraction in millionths.
RECURSIVE ZeroPad(_, _)
ZeroPad(s, width) == IF Len(s) >= width THEN s ELSE ZeroPad(<<"0">> \o s, width)

\* repr drops trailing zeros of the fraction and keeps one digit.
RECURSIVE StripZeros(_)
StripZeros(s) ==
    IF Len(s) > 1 /\ s[Len(s)] = "0" THEN StripZeros(SubSeq(s, 1, Len(s) - 1)) ELSE s

\* json.dump of a float (float.__repr__), for a value in micro-degrees.
FormatFloat(v) ==
    LET a == IF v < 0 THEN 0 - v ELSE v
    IN  (IF v < 0 THEN <<"-">> ELSE <<>>)
        \o DigitsOf(a \div Unit) \o <<".">> \o StripZeros(ZeroPad(DigitsOf(a % Unit), 6))

\* json.dump of a bool.
FormatBool(b) == IF b THEN <<"t", "r", "u", "e">> ELSE <<"f", "a", "l", "s", "e">>

\* json.dump of a str without characters to escape.
FormatString(s) == <<"\"", s, "\"">>

\* json.dump of the value of a key of Config.settings.
FormatValue(key, value) ==
    IF key \in FloatKeys THEN FormatFloat(value)
    ELSE IF key = "timezone" THEN FormatInt(value)
    ELSE IF key = "daylight_saving" THEN FormatBool(value)
    ELSE FormatString(value)

\* json.dump(self.settings, f)
JsonDump(cfg) == [i \in 1..Len(KeyOrder) |-> <<KeyOrder[i], FormatValue(KeyOrder[i], cfg[KeyOrder[i]])>>]

\* int() of an optionally signed sequence of digits.
ParseSigned(s) ==
    IF s[1] = "-" THEN 0 - ParseInt(SubSeq(s, 2, Len(s))) ELSE ParseInt(s)

\* Position of the "." of a number's text, 0 when it has none.
PointAt(s) ==
    IF \E i \in 1..Len(s) : s[i] = "." THEN CHOOSE i \in 1..Len(s) : s[i] = "." ELSE 0

\* Digits of a fraction extended to six places.
RECURSIVE SixPlaces(_)
SixPlaces(s) == IF Len(s) >= 6 THEN SubSeq(s, 1, 6) ELSE SixPlaces(s \o <<"0">>)

\* A float's text read with the fraction's digits taken as millionths.
ParseFloat_unpadded(s) ==
    LET neg == s[1] = "-"
        body == IF neg THEN SubSeq(s, 2, Len(s)) ELSE s
        p == PointAt(body)
        a == ParseInt(SubSeq(body, 1, p - 1)) * Unit + ParseInt(SubSeq(body, p + 1, Len(body)))
    IN  IF neg THEN 0 - a ELSE a

\* json.load of a float's text, in micro-degrees.
ParseFloat(s) ==
    LET neg == s[1] = "-"
        body == IF neg THEN SubSeq(s, 2, Len(s)) ELSE s
        p == PointAt(body)
        a == ParseInt(SubSeq(body, 1, p - 1)) * Unit
             + ParseInt(SixPlaces(SubSeq(body, p + 1, Len(body))))
    IN  IF neg THEN 0 - a ELSE a

\* json.load of a value text.
ParseValue(s) ==
    IF s[1] = "\"" THEN s[2]
    ELSE IF s[1] = "t" THEN TRUE
    ELSE IF s[1] = "f" THEN FALSE
    ELSE IF PointAt(s) # 0 THEN ParseFloat(s)
    ELSE ParseSigned(s)

\* json.load(f): the dict of the file's members.
JsonLoad(text) ==
    [key \in { text[i][1] : i \in 1..Len(text) } |->
        ParseValue(text[CHOOSE i \in 1..Len(text) : text[i][1] = key][2])]

\* Config.load_default_settings (the keys the model keeps).
load_default_settings ==
    [location_name |-> "Tampa", latitude |-> 27950600, longitude |-> -82457200,
     timezone |-> -5, daylight_saving |-> TRUE, method |-> "ISNA",
     selected_city |-> "Tampa"]

\* self.settings.update(saved_settings)
DictUpdate(cfg, saved) ==
    [key \in DOMAIN cfg \cup DOMAIN saved |->
        IF key \in DOMAIN saved THEN saved[key] ELSE cfg[key]]

\* Entries of Config.get_us_cities.
Cities ==
    { [name |-> "New York", lat |-> 40712800, lon |-> -74006000, tz |-> -5],
      [name |-> "Los Angeles", lat |-> 34052200, lon |-> -118243700, tz |-> -8],
      [name |-> "Tampa", lat |-> 27950600, lon |-> -82457200, tz |-> -5] }

\* The assignments of Config.update_location.
update_location(cfg, city_data) ==
    [cfg EXCEPT !.location_name = city_data.name, !.latitude = city_data.lat,
                !.longitude = city_data.lon, !.timezone = city_data.tz,
                !.selected_city = city_data.name]

\* What the with-block of save_settings leaves in the file: the dump, the
\* file as it was when open() raises, or a file cut short when the write does.
SaveOutcomes == {"written", "open failed", "write failed"}

\* No settings file, or one that json.load rejects.
NoFile == <<>>

save_settings(text, cfg, outcome) ==
    IF outcome = "written" THEN JsonDump(cfg)
    ELSE IF outcome = "open failed" THEN text
    ELSE NoFile

\* The settings of a Config constructed on the file: the defaults, updated
\* with the file's members when json.load accepts it.
ConfigSettings(text) ==
    IF text = NoFile THEN load_default_settings
    ELSE DictUpdate(load_default_settings, JsonLoad(text))

\* -------------------------------------------------------------------- state
VARIABLES
    rtc,                 \* the date the RTC shows: [year, month, day]
    settings,            \* Config.settings (the keys the calculator and menus use)
    pt,                  \* PrayerTimes fields fixed by __init__
    timezone,            \* PrayerTimes.timezone
    prayer_times_cache,  \* PrayerTimes.prayer_times_cache
    last_update_day,     \* PrayerTimes.last_update_day
    op,                  \* the operation that ran last
    arg,                 \* its arguments
    ret,                 \* its return value
    recomputed,          \* whether it called calculate_times
    dstChanged,          \* daylight_saving was set since the last update_prayer_times
    computed_for,        \* date and timezone prayer_times_cache was computed for
    dstq,                \* last call into dst_utils: arguments and result
    file,                \* contents of the settings file; SpecConfig follows it, the
                         \* other specifications, where nothing reads the file
                         \* once Config is constructed, keep it at NoFile
    rtc_time,            \* the time of day the RTC shows: [hour, minute, second]
    ticks_ms,            \* time.ticks_ms()
    app,                 \* MuslimCompanion fields: is_sleeping, last_activity_time,
                         \* current_tab
    run,                 \* locals of MuslimCompanion.run: last_second, last_minute,
                         \* screen_needs_refresh, last_prayer_check
    trace                \* what the last step of the application called and drew

\* The state of the application around the calculator. The specifications of
\* the calculator, of dst_utils and of Config by themselves keep it as
\* MuslimCompanion.__init__ leaves it.
LoopVars == <<rtc_time, ticks_ms, app, run, trace>>

vars == <<rtc, settings, pt, timezone, prayer_times_cache, last_update_day,
          op, arg, ret, recomputed, dstChanged, computed_for, dstq, file, LoopVars>>

\* The calculator reading the method from the settings at each call.
Self_method_from_config(tz) ==
    [latitude |-> pt.latitude, longitude |-> pt.longitude, timezone |-> tz,
     calculation_method |-> settings.method, asr_madhab |-> pt.asr_madhab]

\* The calculator as calculate_times and hours_to_time read it.
Self(tz) ==
    [latitude |-> pt.latitude, longitude |-> pt.longitude, timezone |-> tz,
     calculation_method |-> pt.calculation_method, asr_madhab |-> pt.asr_madhab]

\* Config.load_default_settings overlaid with a stored location and method.
load_settings(setup, dst) ==
    [latitude |-> setup.latitude, longitude |-> setup.longitude,
     timezone |-> setup.timezone, method |-> setup.method,
     daylight_saving |-> dst, last_prayer_update |-> None]

\* PrayerTimes.__init__; config tells whether a config provider was passed
\* (MuslimCompanion.__init__ passes one).
PrayerTimes(cfg, config) ==
    [latitude |-> cfg.latitude, longitude |-> cfg.longitude,
     base_timezone |-> cfg.timezone, calculation_method |-> cfg.method,
     asr_madhab |-> 1, config |-> config]

\* The RTC's date is state; its time of day runs freely and is drawn at each
\* reading (the hour and minute an operation reads are kept in arg).
Clock(date) == [year |-> date[1], month |-> date[2], day |-> date[3]]

Idle == [fn |-> "none"]

\* Nothing computed yet.
NotComputed == [year |-> 0, month |-> 0, day |-> NoDay, timezone |-> 0]

\* The tabs of the application, in the order handle_input steps through.
Tabs == <<"prayer", "hijri", "qibla", "settings">>

\* MuslimCompanion.__init__: the tab shown and the sleep mode state.
NewApp(now_ms) ==
    [is_sleeping |-> FALSE, last_activity_time |-> now_ms, current_tab |-> "prayer"]

\* The locals of run before its loop; the empty string is the empty sequence.
NewRun ==
    [last_second |-> -1, last_minute |-> -1, screen_needs_refresh |-> FALSE,
     last_prayer_check |-> <<>>]

\* A step that called none of the operations trace counts.
NoTrace ==
    [alert_checks |-> 0, alerts |-> <<>>, draws |-> 0, updates |-> 0, sleeps |-> 0,
     sync_attempts |-> 0, queried |-> <<>>]

TimeOfDay(h, m, s) == [hour |-> h, minute |-> m, second |-> s]

LoopIdle ==
    /\ rtc_time = TimeOfDay(0, 0, 0)
    /\ ticks_ms = 0
    /\ app = NewApp(0)
    /\ run = NewRun
    /\ trace = NoTrace

Init ==
    /\ \E setup \in Setups, dst \in BOOLEAN :
          /\ settings = load_settings(setup, dst)
          /\ pt = PrayerTimes(load_settings(setup, dst), TRUE)
          /\ timezone = setup.timezone
    /\ \E date \in Dates : rtc = Clock(date)
    /\ prayer_times_cache = <<>>
    /\ last_update_day = NoDay
    /\ op = "init"
    /\ arg = None
    /\ ret = None
    /\ recomputed = FALSE
    /\ dstChanged = FALSE
    /\ computed_for = NotComputed
    /\ dstq = Idle
    /\ LoopIdle
    /\ file = NoFile

\* ------------------------------------------------------------------ actions
\* update_prayer_times without the test of the day: every call recomputes.
update_prayer_times_every_call(tz, cache, last, now, cfg) ==
    LET tz1 == IF pt.config
               THEN get_current_timezone_offset(pt.base_timezone, cfg.daylight_saving, now)
               ELSE tz
    IN  [timezone |-> tz1,
         cache |-> calculate_times(Self(tz1), now.year, now.month, now.day),
         last |-> now.day, recomputed |-> TRUE, updated |-> TRUE]

\* update_prayer_times with the timezone set only when it recomputes.
update_prayer_times_timezone_late(tz, cache, last, now, cfg) ==
    LET tz1 == IF pt.config
               THEN get_current_timezone_offset(pt.base_timezone, cfg.daylight_saving, now)
               ELSE tz
    IN  IF now.day # last
        THEN [timezone |-> tz1,
              cache |-> calculate_times(Self(tz1), now.year, now.month, now.day),
              last |-> now.day, recomputed |-> TRUE, updated |-> TRUE]
        ELSE [timezone |-> tz, cache |-> cache, last |-> last,
              recomputed |-> FALSE, updated |-> TRUE]

\* update_prayer_times with the cache keyed by the whole date.
update_prayer_times_full_date(tz, cache, last, now, cfg) ==
    LET tz1 == IF pt.config
               THEN get_current_timezone_offset(pt.base_timezone, cfg.daylight_saving, now)
               ELSE tz
    IN  IF now.day # last \/ now.month # computed_for.month \/ now.year # computed_for.year
        THEN [timezone |-> tz1,
              cache |-> calculate_times(Self(tz1), now.year, now.month, now.day),
              last |-> now.day, recomputed |-> TRUE, updated |-> TRUE]
        ELSE [timezone |-> tz1, cache |-> cache, last |-> last,
              recomputed |-> FALSE, updated |-> TRUE]

\* update_prayer_times recomputing without recording the day.
update_prayer_times_day_not_recorded(tz, cache, last, now, cfg) ==
    LET tz1 == IF pt.config
               THEN get_current_timezone_offset(pt.base_timezone, cfg.daylight_saving, now)
               ELSE tz
    IN  IF now.day # last
        THEN [timezone |-> tz1,
              cache |-> calculate_times(Self(tz1), now.year, now.month, now.day),
              last |-> last, recomputed |-> TRUE, updated |-> TRUE]
        ELSE [timezone |-> tz1, cache |-> cache, last |-> last,
              recomputed |-> FALSE, updated |-> TRUE]

\* update_prayer_times: the calculator's fields after the call.
update_prayer_times(tz, cache, last, now, cfg) ==
    LET tz1 == IF pt.config
               THEN get_current_timezone_offset(pt.base_timezone, cfg.daylight_saving, now)
               ELSE tz
    IN  IF now.day # last
        THEN [timezone |-> tz1,
              cache |-> calculate_times(Self(tz1), now.year, now.month, now.day),
              last |-> now.day, recomputed |-> TRUE, updated |-> TRUE]
        ELSE [timezone |-> tz1, cache |-> cache, last |-> last,
              recomputed |-> FALSE, updated |-> TRUE]

\* The readers' test widened to a cache of another day.
EnsureCache_stale_day ==
    IF prayer_times_cache = <<>> \/ rtc.day # last_update_day
    THEN update_prayer_times(timezone, prayer_times_cache, last_update_day, rtc, settings)
    ELSE [timezone |-> timezone, cache |-> prayer_times_cache, last |-> last_update_day,
          recomputed |-> FALSE, updated |-> FALSE]

\* "if not self.prayer_times_cache: self.update_prayer_times()"
EnsureCache ==
    IF prayer_times_cache = <<>>
    THEN update_prayer_times(timezone, prayer_times_cache, last_update_day, rtc, settings)
    ELSE [timezone |-> timezone, cache |-> prayer_times_cache, last |-> last_update_day,
          recomputed |-> FALSE, updated |-> FALSE]

\* The loop of get_next_prayer with >= for >.
RECURSIVE NextPrayerFrom_not_strict(_, _, _, _)
NextPrayerFrom_not_strict(cache, prayer_order, i, current_minutes) ==
    IF i > Len(prayer_order)
    THEN <<"Fajr", DictGet(cache, "Fajr", <<"-", "-", ":", "-", "-">>)>>
    ELSE LET prayer == prayer_order[i]
         IN  IF DictHas(cache, prayer)
                /\ PrayerMinutes(DictGet(cache, prayer, None)) >= current_minutes
             THEN <<prayer, DictGet(cache, prayer, None)>>
             ELSE NextPrayerFrom_not_strict(cache, prayer_order, i + 1, current_minutes)

\* The loop of get_next_prayer falling back to the last prayer of the order.
RECURSIVE NextPrayerFrom_last(_, _, _, _)
NextPrayerFrom_last(cache, prayer_order, i, current_minutes) ==
    IF i > Len(prayer_order)
    THEN <<"Isha", DictGet(cache, "Isha", <<"-", "-", ":", "-", "-">>)>>
    ELSE LET prayer == prayer_order[i]
         IN  IF DictHas(cache, prayer)
                /\ PrayerMinutes(DictGet(cache, prayer, None)) > current_minutes
             THEN <<prayer, DictGet(cache, prayer, None)>>
             ELSE NextPrayerFrom_last(cache, prayer_order, i + 1, current_minutes)

\* The for loop of get_next_prayer over prayer_order, from index i.
RECURSIVE NextPrayerFrom(_, _, _, _)
NextPrayerFrom(cache, prayer_order, i, current_minutes) ==
    IF i > Len(prayer_order)
    THEN <<"Fajr", DictGet(cache, "Fajr", <<"-", "-", ":", "-", "-">>)>>
    ELSE LET prayer == prayer_order[i]
         IN  IF DictHas(cache, prayer)
                /\ PrayerMinutes(DictGet(cache, prayer, None)) > current_minutes
             THEN <<prayer, DictGet(cache, prayer, None)>>
             ELSE NextPrayerFrom(cache, prayer_order, i + 1, current_minutes)

get_next_prayer(cache, hour, minute) ==
    NextPrayerFrom(cache, <<"Fajr", "Dhuhr", "Asr", "Maghrib", "Isha">>, 1,
                   hour * 60 + minute)

\* The loop of check_prayer_time_alert matching a minute either side as well.
RECURSIVE AlertFrom_within_a_minute(_, _, _)
AlertFrom_within_a_minute(cache, i, current_time) ==
    IF i > Len(cache) THEN None
    ELSE IF PrayerMinutes(cache[i][2]) - PrayerMinutes(current_time) \in -1..1
         THEN cache[i][1]
    ELSE AlertFrom_within_a_minute(cache, i + 1, current_time)

\* The for loop of check_prayer_time_alert over the cache's items, from index i.
RECURSIVE AlertFrom(_, _, _)
AlertFrom(cache, i, current_time) ==
    IF i > Len(cache) THEN None
    ELSE IF cache[i][2] = current_time THEN cache[i][1]
    ELSE AlertFrom(cache, i + 1, current_time)

check_prayer_time_alert(cache, hour, minute) ==
    AlertFrom(cache, 1, FormatHHMM(hour, minute))

\* Minutes of the day at an entry of the schedule and Slack minutes either
\* side of it, with midnight and the last minute of the day.
NearMinutes(cache) ==
    {0, 1439} \cup
    { (PrayerMinutes(cache[i][2]) + o + 1440) % 1440 : i \in 1..Len(cache), o \in {0 - Slack, 0, Slack} }

Calc(r) ==
    /\ timezone' = r.timezone
    /\ prayer_times_cache' = r.cache
    /\ last_update_day' = r.last
    /\ recomputed' = r.recomputed
    /\ dstChanged' = IF r.updated THEN FALSE ELSE dstChanged
    /\ computed_for' = IF r.recomputed
                       THEN [year |-> rtc.year, month |-> rtc.month, day |-> rtc.day,
                             timezone |-> r.timezone]
                       ELSE computed_for

UpdatePrayerTimes ==
    LET r == update_prayer_times(timezone, prayer_times_cache, last_update_day, rtc, settings)
    IN  /\ Calc(r)
        /\ op' = "update_prayer_times"
        /\ arg' = None
        /\ ret' = r.cache
        /\ UNCHANGED <<rtc, settings, pt, dstq, file, LoopVars>>

GetNextPrayer ==
    LET r == EnsureCache
    IN  \E t \in NearMinutes(r.cache) :
           /\ Calc(r)
           /\ op' = "get_next_prayer"
           /\ arg' = <<t \div 60, t % 60>>
           /\ ret' = get_next_prayer(r.cache, t \div 60, t % 60)
           /\ UNCHANGED <<rtc, settings, pt, dstq, file, LoopVars>>

GetPrayerTimes ==
    LET r == EnsureCache
    IN  /\ Calc(r)
        /\ op' = "get_prayer_times"
        /\ arg' = None
        /\ ret' = r.cache
        /\ UNCHANGED <<rtc, settings, pt, dstq, file, LoopVars>>

CheckPrayerTimeAlert ==
    LET r == EnsureCache
    IN  \E t \in NearMinutes(r.cache) :
           /\ Calc(r)
           /\ op' = "check_prayer_time_alert"
           /\ arg' = <<t \div 60, t % 60>>
           /\ ret' = check_prayer_time_alert(r.cache, t \div 60, t % 60)
           /\ UNCHANGED <<rtc, settings, pt, dstq, file, LoopVars>>

\* The RTC comes to show another date (time passing,
\* PrayerSettings.set_clock_time, WiFiTimeSync.sync_time_from_ntp).
RtcSet ==
    \E date \in Dates :
        /\ rtc' = Clock(date)
        /\ rtc' # rtc
        /\ op' = "rtc"
        /\ arg' = None
        /\ ret' = None
        /\ recomputed' = FALSE
        /\ UNCHANGED <<settings, pt, timezone, prayer_times_cache, last_update_day,
                       dstChanged, computed_for, dstq, file, LoopVars>>

\* Config.set: self.settings[key] = value (and save_settings).
ConfigSet(cfg, key, value) == [cfg EXCEPT ![key] = value]

Menu(cfg) ==
    /\ settings' = cfg
    /\ dstChanged' = TRUE
    /\ op' = "settings"
    /\ arg' = None
    /\ ret' = None
    /\ recomputed' = FALSE
    /\ UNCHANGED <<rtc, pt, timezone, prayer_times_cache, last_update_day,
                   computed_for, dstq, file, LoopVars>>

\* SimpleSettings.show_settings_menu, item 5 (Daylight Saving).
SimpleSettingsToggleDst ==
    Menu(ConfigSet(settings, "daylight_saving", ~settings.daylight_saving))

\* NoTouchSettings.modify_setting on the Daylight Saving item.
NoTouchSettingsToggleDst ==
    Menu(ConfigSet(settings, "daylight_saving", ~settings.daylight_saving))

\* PrayerSettings.show_settings_with_navigation on the Daylight Saving item:
\* modify_setting toggles it and returns True, then last_prayer_update is set.
PrayerSettingsToggleDst ==
    Menu(ConfigSet(ConfigSet(settings, "daylight_saving", ~settings.daylight_saving),
                   "last_prayer_update", 0))

Next ==
    \/ UpdatePrayerTimes
    \/ GetNextPrayer
    \/ GetPrayerTimes
    \/ CheckPrayerTimeAlert
    \/ RtcSet
    \/ SimpleSettingsToggleDst
    \/ NoTouchSettingsToggleDst
    \/ PrayerSettingsToggleDst

Spec == Init /\ [][Next]_vars

\* ------------------------------------------------- the DST resolver by itself
\* Base offsets of Config.get_us_cities (Eastern .. Pacific).
BaseTimezones == {-8, -7, -6, -5}

\* The Gregorian calendar, as the reference the resolver is compared with.
IsLeapYear(y) == (y % 4 = 0 /\ y % 100 # 0) \/ y % 400 = 0

DaysInMonth(y, m) ==
    IF m = 2 THEN (IF IsLeapYear(y) THEN 29 ELSE 28)
    ELSE IF m \in {4, 6, 9, 11} THEN 30 ELSE 31

RECURSIVE DaysBeforeMonth(_, _)
DaysBeforeMonth(y, m) ==
    IF m = 1 THEN 0 ELSE DaysBeforeMonth(y, m - 1) + DaysInMonth(y, m - 1)

\* Days from 0001-01-01 (a Monday) to the date, counting both.
DayNumber(y, m, d) ==
    365 * (y - 1) + ((y - 1) \div 4) - ((y - 1) \div 100) + ((y - 1) \div 400)
    + DaysBeforeMonth(y, m) + d

\* Day of the week of a calendar date, 0 = Sunday .. 6 = Saturday.
CalendarWeekday(y, m, d) == DayNumber(y, m, d) % 7

SecondSundayOfMarch(y) == CHOOSE d \in 8..14 : CalendarWeekday(y, 3, d) = 0

FirstSundayOfNovember(y) == CHOOSE d \in 1..7 : CalendarWeekday(y, 11, d) = 0

\* Calendar dates of the years FirstYear .. LastYear.
DstDates ==
    { date \in (FirstYear..LastYear) \X (1..12) \X (1..31) :
        date[3] <= DaysInMonth(date[1], date[2]) }

InitDst ==
    /\ settings = load_settings(SetupList[1], TRUE)
    /\ pt = PrayerTimes(load_settings(SetupList[1], TRUE), TRUE)
    /\ timezone = SetupList[1].timezone
    /\ \E date \in DstDates : rtc = Clock(date)
    /\ prayer_times_cache = <<>>
    /\ last_update_day = NoDay
    /\ op = "init"
    /\ arg = None
    /\ ret = None
    /\ recomputed = FALSE
    /\ dstChanged = FALSE
    /\ computed_for = NotComputed
    /\ dstq = Idle
    /\ LoopIdle
    /\ file = NoFile

Frame == UNCHANGED <<settings, pt, timezone, prayer_times_cache, last_update_day,
                     op, arg, ret, recomputed, dstChanged, computed_for, file, LoopVars>>

\* PrayerSettings.set_clock_time: rtc.datetime((year, month, day, ...)).
\* One of year, month and day is edited, to another calendar date.
SetClockTime ==
    \E date \in { <<y, rtc.month, rtc.day>> : y \in FirstYear..LastYear }
                \cup { <<rtc.year, m, rtc.day>> : m \in 1..12 }
                \cup { <<rtc.year, rtc.month, d>> : d \in 1..31 } :
        /\ date[3] <= DaysInMonth(date[1], date[2])
        /\ rtc' = Clock(date)
        /\ rtc' # rtc
        /\ dstq' = Idle
        /\ Frame

\* is_dst_active(year, month, day) on the date the clock shows.
IsDstActiveCall ==
    /\ dstq' = [fn |-> "is_dst_active", year |-> rtc.year, month |-> rtc.month,
                day |-> rtc.day, result |-> is_dst_active(rtc.year, rtc.month, rtc.day)]
    /\ UNCHANGED rtc
    /\ Frame

\* get_current_timezone_offset(base_timezone, daylight_saving_enabled).
TimezoneOffsetCall ==
    \E base \in BaseTimezones, enabled \in BOOLEAN :
        /\ dstq' = [fn |-> "get_current_timezone_offset", base_timezone |-> base,
                    daylight_saving_enabled |-> enabled,
                    result |-> get_current_timezone_offset(base, enabled, rtc)]
        /\ UNCHANGED rtc
        /\ Frame

\* get_weekday(year, month, day) on the date the clock shows.
GetWeekdayCall ==
    /\ dstq' = [fn |-> "get_weekday", year |-> rtc.year, month |-> rtc.month,
                day |-> rtc.day, result |-> get_weekday(rtc.year, rtc.month, rtc.day)]
    /\ UNCHANGED rtc
    /\ Frame

\* get_second_sunday_march(year) for the year the clock shows.
SecondSundayMarchCall ==
    /\ dstq' = [fn |-> "get_second_sunday_march", year |-> rtc.year,
                result |-> get_second_sunday_march(rtc.year)]
    /\ UNCHANGED rtc
    /\ Frame

\* get_first_sunday_november(year) for the year the clock shows.
FirstSundayNovemberCall ==
    /\ dstq' = [fn |-> "get_first_sunday_november", year |-> rtc.year,
                result |-> get_first_sunday_november(rtc.year)]
    /\ UNCHANGED rtc
    /\ Frame

NextDst ==
    \/ SetClockTime
    \/ IsDstActiveCall
    \/ TimezoneOffsetCall
    \/ GetWeekdayCall
    \/ SecondSundayMarchCall
    \/ FirstSundayNovemberCall

SpecDst == InitDst /\ [][NextDst]_vars

\* C6: is_dst_active(year, 3, day) is true exactly from the calendar's second
\* Sunday of March on, and is_dst_active(year, 11, day) is true exactly before
\* the calendar's first Sunday of November.
C6_DstBoundaries ==
    dstq.fn = "is_dst_active" =>
        /\ dstq.month = 3 =>
              (dstq.result <=> dstq.day >= SecondSundayOfMarch(dstq.year))
        /\ dstq.month = 11 =>
              (dstq.result <=> dstq.day < FirstSundayOfNovember(dstq.year))

\* C7: is_dst_active is false in January, February and December and true
\* from April to October, whatever the year and the day.
C7_DstFixedMonths ==
    dstq.fn = "is_dst_active" =>
        /\ dstq.month \in {1, 2, 12} => ~dstq.result
        /\ dstq.month \in 4..10 => dstq.result

C7_Witness ==
    /\ dstq.fn = "is_dst_active"
    /\ dstq.month = 10
    /\ dstq.day = 31
    /\ dstq.result

\* C8: get_current_timezone_offset(base, enabled) is base + 1 exactly when
\* enabled is true and is_dst_active holds for the date the clock shows, and
\* base otherwise.
C8_TimezoneOffset ==
    dstq.fn = "get_current_timezone_offset" =>
        LET active == is_dst_active(rtc.year, rtc.month, rtc.day)
        IN  /\ (dstq.daylight_saving_enabled /\ active)
                  => dstq.result = dstq.base_timezone + 1
            /\ ~(dstq.daylight_saving_enabled /\ active)
                  => dstq.result = dstq.base_timezone

C8_Witness ==
    /\ dstq.fn = "get_current_timezone_offset"
    /\ dstq.daylight_saving_enabled
    /\ rtc.month = 3
    /\ dstq.result = dstq.base_timezone + 1

\* ------------------------------------------------------------ the calculator
FivePrayers == <<"Fajr", "Dhuhr", "Asr", "Maghrib", "Isha">>

\* hour * 60 + minute of the time an operation was given or read.
ArgMinutes(a) == a[1] * 60 + a[2]

\* The schedule calculate_times yields for the RTC's date at offset tz.
ScheduleFor(tz) == calculate_times(Self(tz), rtc.year, rtc.month, rtc.day)

\* C1: update_prayer_times recomputes exactly when the RTC's day-of-month
\* differs from last_update_day: it then replaces the cache by
\* calculate_times(current year, month, day) and sets last_update_day to the
\* current day; otherwise it calls calculate_times not at all and returns the
\* cached schedule as it is, so the second of two calls on one day returns
\* what the first returned.
C1_RecomputeIffDayDiffers ==
    [][ op' = "update_prayer_times" =>
          /\ IF rtc.day # last_update_day
             THEN /\ recomputed'
                  /\ prayer_times_cache' =
                        calculate_times(Self(timezone'), rtc.year, rtc.month, rtc.day)
                  /\ last_update_day' = rtc.day
                  /\ ret' = prayer_times_cache'
             ELSE /\ ~recomputed'
                  /\ prayer_times_cache' = prayer_times_cache
                  /\ last_update_day' = last_update_day
                  /\ ret' = prayer_times_cache
          /\ op = "update_prayer_times" => (~recomputed' /\ ret' = ret)
      ]_vars

C1_Witness ==
    /\ op = "update_prayer_times"
    /\ ~recomputed
    /\ last_update_day = rtc.day
    /\ Len(ret) = 6
    /\ ret = prayer_times_cache

\* Whether the i-th of the five prayers is cached with a clock time strictly
\* after minute now of the day.
Later(cache, i, now) ==
    /\ DictHas(cache, FivePrayers[i])
    /\ PrayerMinutes(DictGet(cache, FivePrayers[i], None)) > now

\* ret is the first of the five prayers, in order, that is strictly later
\* than now, with its cached time.
ReturnsFirstLater(cache, now, r) ==
    \E i \in 1..Len(FivePrayers) :
        /\ Later(cache, i, now)
        /\ \A j \in 1..(i - 1) : ~Later(cache, j, now)
        /\ r = <<FivePrayers[i], DictGet(cache, FivePrayers[i], None)>>

\* C2 as stated: for every cached schedule and every current time,
\* get_next_prayer returns the first of Fajr, Dhuhr, Asr, Maghrib, Isha whose
\* time is strictly after the current minute; a prayer at the current minute
\* is not returned, and Sunrise is never returned.
C2_Original ==
    op = "get_next_prayer" =>
        /\ ReturnsFirstLater(prayer_times_cache, ArgMinutes(arg), ret)
        /\ PrayerMinutes(ret[2]) # ArgMinutes(arg)
        /\ ret[1] # "Sunrise"

\* C2, amended: whenever one of Fajr, Dhuhr, Asr, Maghrib, Isha is cached
\* with a time strictly after the current minute, get_next_prayer returns the
\* first such prayer in that order, so not a prayer at the current minute;
\* and Sunrise is never returned.
C2_NextPrayer ==
    op = "get_next_prayer" =>
        /\ ret[1] # "Sunrise"
        /\ (\E i \in 1..Len(FivePrayers) : Later(prayer_times_cache, i, ArgMinutes(arg)))
              => /\ ReturnsFirstLater(prayer_times_cache, ArgMinutes(arg), ret)
                 /\ PrayerMinutes(ret[2]) > ArgMinutes(arg)

\* The clock is at the minute of Dhuhr, and Asr is returned.
C2_Witness ==
    /\ op = "get_next_prayer"
    /\ PrayerMinutes(DictGet(prayer_times_cache, "Dhuhr", None)) = ArgMinutes(arg)
    /\ PrayerMinutes(DictGet(prayer_times_cache, "Fajr", None)) < ArgMinutes(arg)
    /\ ret[1] = "Asr"

\* C3: when the current time is at or after each of the five cached prayer
\* times, get_next_prayer returns ("Fajr", the cached Fajr time) and neither
\* recomputes nor changes the cached schedule.
C3_AfterLastPrayer ==
    [][ ( /\ op' = "get_next_prayer"
          /\ prayer_times_cache # <<>>
          /\ \A i \in 1..Len(FivePrayers) :
                PrayerMinutes(DictGet(prayer_times_cache, FivePrayers[i], None))
                   <= ArgMinutes(arg') )
        => /\ ret' = <<"Fajr", DictGet(prayer_times_cache, "Fajr", None)>>
           /\ ~recomputed'
           /\ prayer_times_cache' = prayer_times_cache
           /\ last_update_day' = last_update_day
      ]_vars

C3_Witness ==
    /\ op = "get_next_prayer"
    /\ ~recomputed
    /\ \A i \in 1..Len(FivePrayers) :
          PrayerMinutes(DictGet(prayer_times_cache, FivePrayers[i], None)) <= ArgMinutes(arg)
    /\ PrayerMinutes(DictGet(prayer_times_cache, "Isha", None)) < ArgMinutes(arg)
    /\ ret = <<"Fajr", DictGet(prayer_times_cache, "Fajr", None)>>

\* Indices of the schedule's entries that equal the zero-padded "HH:MM" of a.
Matches(cache, a) == { i \in 1..Len(cache) : cache[i][2] = FormatHHMM(a[1], a[2]) }

\* C4: check_prayer_time_alert(hour, minute) returns a prayer's name only when
\* the zero-padded "HH:MM" equals that prayer's cached entry, the first such
\* entry in schedule order when there are several, and none for every other
\* (hour, minute), one minute before or after a prayer time included.
C4_AlertExactMatch ==
    op = "check_prayer_time_alert" =>
        LET hits == Matches(prayer_times_cache, arg)
        IN  /\ hits = {} => ret = None
            /\ hits # {} =>
                 \E i \in hits : /\ \A j \in hits : i <= j
                                 /\ ret = prayer_times_cache[i][1]
            /\ \A i \in 1..Len(prayer_times_cache) :
                  (PrayerMinutes(prayer_times_cache[i][2]) # ArgMinutes(arg))
                     => ret # prayer_times_cache[i][1]

\* Two entries equal the given time and the earlier one is returned.
C4_Witness ==
    /\ op = "check_prayer_time_alert"
    /\ Cardinality(Matches(prayer_times_cache, arg)) >= 2
    /\ ret = "Fajr"

\* C5: get_prayer_times, get_next_prayer and check_prayer_time_alert compute
\* the schedule only when the cache is empty; on a non-empty cache they leave
\* the schedule, last_update_day and the timezone as they are, also when the
\* RTC's day differs from last_update_day.
C5_ReadersComputeOnlyWhenEmpty ==
    [][ op' \in {"get_prayer_times", "get_next_prayer", "check_prayer_time_alert"} =>
          /\ recomputed' <=> (prayer_times_cache = <<>>)
          /\ prayer_times_cache # <<>> =>
                /\ prayer_times_cache' = prayer_times_cache
                /\ last_update_day' = last_update_day
                /\ timezone' = timezone
      ]_vars

C5_Witness ==
    /\ op \in {"get_prayer_times", "get_next_prayer", "check_prayer_time_alert"}
    /\ ~recomputed
    /\ prayer_times_cache # <<>>
    /\ last_update_day # rtc.day

\* C9: once daylight_saving was changed in a settings menu, the next
\* update_prayer_times call recomputes the schedule, with the new effective
\* offset.
C9_DstChangeInvalidates ==
    [][ (op' = "update_prayer_times" /\ dstChanged /\ pt.config) =>
          /\ recomputed'
          /\ prayer_times_cache' =
                calculate_times(Self(timezone'), rtc.year, rtc.month, rtc.day)
      ]_vars

\* base_timezone + 1 when daylight_saving is set and DST is active on the
\* RTC's date, else base_timezone.
EffectiveOffset ==
    pt.base_timezone +
    (IF settings.daylight_saving /\ is_dst_active(rtc.year, rtc.month, rtc.day) THEN 1 ELSE 0)

\* C10: with a config provider, every update_prayer_times call sets the
\* timezone to the effective offset of base_timezone and the current
\* daylight_saving setting, also when it does not recompute; such a call
\* leaves the cached schedule as it is.
C10_TimezoneEveryCall ==
    [][ (op' = "update_prayer_times" /\ pt.config) =>
          /\ timezone' = EffectiveOffset
          /\ ~recomputed' => prayer_times_cache' = prayer_times_cache
      ]_vars

\* A call that did not recompute left a schedule of the other offset cached.
C10_Witness ==
    /\ op = "update_prayer_times"
    /\ pt.config
    /\ ~recomputed
    /\ timezone = EffectiveOffset
    /\ prayer_times_cache # ScheduleFor(timezone)
    /\ \E tz \in {timezone - 1, timezone + 1} : prayer_times_cache = ScheduleFor(tz)

\* -------------------------------------------------- the calculator by itself
\* Locations a calculator is constructed for: the three of SetupList and the
\* two poles.
Locations ==
    { [latitude |-> SetupList[i].latitude, longitude |-> SetupList[i].longitude,
       timezone |-> SetupList[i].timezone] : i \in 1..3 }
    \cup
    { [latitude |-> 90000000, longitude |-> 0, timezone |-> 0],
      [latitude |-> -90000000, longitude |-> 0, timezone |-> 0] }

\* The codes of Config.get_calculation_methods.
MethodNames == {"MWL", "ISNA", "Egypt", "Mecca", "Karachi", "Tehran", "Jafari"}

\* Dates given to calculate_times.
CalcDates == { DateList[i] : i \in 1..Len(DateList) }

\* Decimal hours given to hours_to_time: times of day around a minute's and a
\* day's boundary, shifted by up to Wraps days either way.
DayHours ==
    {0, 1, 16666, 16667, 12 * Unit + 500000, 23 * Unit + 983333, 24 * Unit - 1}

HourSamples == { d * 24 * Unit + b : d \in (0 - Wraps)..Wraps, b \in DayHours }

InitCalc ==
    /\ \E loc \in Locations, method \in MethodNames :
          LET cfg == load_settings([latitude |-> loc.latitude, longitude |-> loc.longitude,
                                    timezone |-> loc.timezone, method |-> method], TRUE)
          IN  /\ settings = cfg
              /\ pt = PrayerTimes(cfg, TRUE)
              /\ timezone = loc.timezone
    /\ \E date \in Dates : rtc = Clock(date)
    /\ prayer_times_cache = <<>>
    /\ last_update_day = NoDay
    /\ op = "init"
    /\ arg = None
    /\ ret = None
    /\ recomputed = FALSE
    /\ dstChanged = FALSE
    /\ computed_for = NotComputed
    /\ dstq = Idle
    /\ LoopIdle
    /\ file = NoFile

\* calculate_times storing what it computed as update_prayer_times does.
CalculateTimes_caching ==
    \E date \in CalcDates :
        /\ op' = "calculate_times"
        /\ arg' = date
        /\ ret' = calculate_times(Self(timezone), date[1], date[2], date[3])
        /\ recomputed' = FALSE
        /\ prayer_times_cache' = ret'
        /\ last_update_day' = date[3]
        /\ UNCHANGED <<rtc, settings, pt, timezone, dstChanged, computed_for, dstq, file, LoopVars>>

\* calculate_times(year, month, day) called on the calculator.
CalculateTimes ==
    \E date \in CalcDates :
        /\ op' = "calculate_times"
        /\ arg' = date
        /\ ret' = calculate_times(Self(timezone), date[1], date[2], date[3])
        /\ recomputed' = FALSE
        /\ UNCHANGED <<rtc, settings, pt, timezone, prayer_times_cache, last_update_day,
                       dstChanged, computed_for, dstq, file, LoopVars>>

\* hours_to_time(hours, apply_timezone) called on the calculator.
HoursToTime ==
    \E hours \in HourSamples, apply_timezone \in BOOLEAN :
        /\ op' = "hours_to_time"
        /\ arg' = <<hours, apply_timezone>>
        /\ ret' = hours_to_time(Self(timezone), hours, apply_timezone)
        /\ recomputed' = FALSE
        /\ UNCHANGED <<rtc, settings, pt, timezone, prayer_times_cache, last_update_day,
                       dstChanged, computed_for, dstq, file, LoopVars>>

NextCalc ==
    \/ UpdatePrayerTimes
    \/ CalculateTimes
    \/ HoursToTime

SpecCalc == InitCalc /\ [][NextCalc]_vars

\* --------------------------------------------------------- the Config store
\* Values the settings menus give to Config.set, per key.
SetValues ==
    [method |-> {"ISNA", "MWL", "Mecca"}, daylight_saving |-> BOOLEAN]

\* Config() on a device without a settings file: load_settings fails and
\* saves the defaults.
InitConfig ==
    /\ settings = load_default_settings
    /\ \E outcome \in SaveOutcomes :
          file = save_settings(NoFile, load_default_settings, outcome)
    /\ pt = PrayerTimes(load_settings(SetupList[1], TRUE), TRUE)
    /\ timezone = SetupList[1].timezone
    /\ rtc = Clock(DateList[1])
    /\ prayer_times_cache = <<>>
    /\ last_update_day = NoDay
    /\ op = "init"
    /\ arg = None
    /\ ret = None
    /\ recomputed = FALSE
    /\ dstChanged = FALSE
    /\ computed_for = NotComputed
    /\ dstq = Idle
    /\ LoopIdle

FrameConfig ==
    UNCHANGED <<rtc, pt, timezone, prayer_times_cache, last_update_day, recomputed,
                dstChanged, computed_for, dstq, LoopVars>>

\* Config.set(key, value)
ConfigSetCall ==
    \E key \in DOMAIN SetValues, outcome \in SaveOutcomes :
        \E value \in SetValues[key] :
            /\ settings' = ConfigSet(settings, key, value)
            /\ file' = save_settings(file, settings', outcome)
            /\ op' = "set"
            /\ arg' = [key |-> key, value |-> value, outcome |-> outcome]
            /\ ret' = None
            /\ FrameConfig

\* Config.update_location(city_data)
UpdateLocationCall ==
    \E city_data \in Cities, outcome \in SaveOutcomes :
        /\ settings' = update_location(settings, city_data)
        /\ file' = save_settings(file, settings', outcome)
        /\ op' = "update_location"
        /\ arg' = [city_data |-> city_data, outcome |-> outcome]
        /\ ret' = None
        /\ FrameConfig

\* Config.get(key)
ConfigGetCall ==
    \E key \in DOMAIN settings :
        /\ op' = "get"
        /\ arg' = [key |-> key]
        /\ ret' = settings[key]
        /\ UNCHANGED <<settings, file, LoopVars>>
        /\ FrameConfig

\* Config() constructed anew on the file (the device restarts).
ConfigNew ==
    \E outcome \in SaveOutcomes :
        /\ settings' = ConfigSettings(file)
        /\ file' = IF file = NoFile
                   THEN save_settings(file, load_default_settings, outcome)
                   ELSE file
        /\ op' = "Config"
        /\ arg' = [outcome |-> outcome]
        /\ ret' = None
        /\ FrameConfig

NextConfig ==
    \/ ConfigSetCall
    \/ UpdateLocationCall
    \/ ConfigGetCall
    \/ ConfigNew

SpecConfig == InitConfig /\ [][NextConfig]_vars

\* ------------------------------------------------------- claims C11 to C20
\* The schedule the cache was computed as.
ComputedSchedule ==
    calculate_times(Self(computed_for.timezone),
                    computed_for.year, computed_for.month, computed_for.day)

\* C11: an update_prayer_times call made when the RTC shows the day-of-month
\* of the last computation but another month or year does not recompute: it
\* returns, and leaves cached, the schedule computed for the earlier date.
C11_DayOfMonthKey ==
    [][ (/\ op' = "update_prayer_times"
         /\ rtc.day = last_update_day
         /\ (rtc.month # computed_for.month \/ rtc.year # computed_for.year)) =>
          /\ ~recomputed'
          /\ ret' = ComputedSchedule
          /\ prayer_times_cache' = ComputedSchedule
          /\ last_update_day' = last_update_day
      ]_vars

\* The call returned the schedule of 9 March while the RTC shows 9 April.
C11_Witness ==
    /\ op = "update_prayer_times"
    /\ ~recomputed
    /\ rtc.day = computed_for.day
    /\ rtc.month # computed_for.month
    /\ ret = ComputedSchedule
    /\ ret # calculate_times(Self(timezone), rtc.year, rtc.month, rtc.day)

\* The calculator as the call that ran last read it (arg is the call's date).
CalcSelf == Self(timezone)

\* Maghrib of that call in decimal hours: sunset plus three minutes.
MaghribHours ==
    calculate_horizon_time(CalcSelf, TransitTable[arg], -833, arg, TRUE) + (3 * Unit) \div 60

\* C12: with method Mecca the Isha entry is Maghrib plus 90 minutes; with
\* ISNA and MWL it is the horizon time after transit at the method's isha
\* angle below the horizon.
C12_IshaRule ==
    op = "calculate_times" =>
        /\ pt.calculation_method = "Mecca" =>
              DictGet(ret, "Isha", None) =
                 hours_to_time(CalcSelf, MaghribHours + (90 * Unit) \div 60, TRUE)
        /\ pt.calculation_method \in {"ISNA", "MWL"} =>
              DictGet(ret, "Isha", None) =
                 hours_to_time(CalcSelf,
                               calculate_horizon_time(CalcSelf, TransitTable[arg],
                                  0 - methods[pt.calculation_method].isha, arg, TRUE),
                               TRUE)

\* The schedule of the call's date for the calculator with another method.
ScheduleWithMethod(name) ==
    calculate_times([CalcSelf EXCEPT !.calculation_method = name], arg[1], arg[2], arg[3])

\* C13: with a method name other than ISNA, MWL and Mecca, calculate_times
\* raises nothing and returns the schedule it returns with ISNA for the same
\* date, location and timezone.
C13_UnknownMethodIsISNA ==
    (op = "calculate_times" /\ pt.calculation_method \notin {"ISNA", "MWL", "Mecca"}) =>
        /\ ret # ValueError
        /\ ret = ScheduleWithMethod("ISNA")

\* Egypt gave the ISNA schedule, which is not the MWL one.
C13_Witness ==
    /\ op = "calculate_times"
    /\ pt.calculation_method = "Egypt"
    /\ Len(ret) = 6
    /\ ret = ScheduleWithMethod("ISNA")
    /\ ret # ScheduleWithMethod("MWL")

\* C14: a calculate_times call returns what the date and the calculator's
\* latitude, longitude, method, madhab and timezone determine, whatever was
\* called before, and leaves the cached schedule, last_update_day and the
\* timezone as they were.
C14_CalculateTimesPure ==
    [][ op' = "calculate_times" =>
          /\ ret' = calculate_times(Self(timezone), arg'[1], arg'[2], arg'[3])
          /\ prayer_times_cache' = prayer_times_cache
          /\ last_update_day' = last_update_day
          /\ timezone' = timezone
          /\ (op = "calculate_times" /\ arg = arg') => ret' = ret
      ]_vars

\* A call for another date than the cached one, after update_prayer_times.
C14_Witness ==
    /\ op = "calculate_times"
    /\ prayer_times_cache # <<>>
    /\ arg[3] # last_update_day
    /\ ret # prayer_times_cache
    /\ ret = calculate_times(CalcSelf, arg[1], arg[2], arg[3])

\* Latitudes between the polar circles, in micro-degrees.
NonPolar(latitude) == latitude > -66560000 /\ latitude < 66560000

\* C15: at a non-polar latitude the six clock strings are strictly ordered
\* Fajr < Sunrise < Dhuhr < Asr < Maghrib < Isha.
C15_StrictOrder ==
    (op = "calculate_times" /\ NonPolar(pt.latitude)) =>
        /\ Len(ret) = 6
        /\ \A i \in 1..5 : PrayerMinutes(ret[i][2]) < PrayerMinutes(ret[i + 1][2])

\* The call of the test block: Tampa, timezone -4, ISNA, 2025-09-03.
TampaTestCall ==
    /\ op = "calculate_times"
    /\ pt.latitude = 27950600
    /\ pt.longitude = -82457200
    /\ timezone = -4
    /\ pt.calculation_method = "ISNA"
    /\ arg = <<2025, 9, 3>>

\* C16 as stated: the Dhuhr entry of that call lies between 13:00 and 13:10.
C16_Original ==
    TampaTestCall =>
        /\ PrayerMinutes(DictGet(ret, "Dhuhr", None)) >= 13 * 60
        /\ PrayerMinutes(DictGet(ret, "Dhuhr", None)) <= 13 * 60 + 10

\* C16: the Dhuhr entry of that call is the minute of transit minus
\* longitude / 15 plus timezone, which is 13:29 and so lies between 13:25 and
\* 13:35.
C16_DhuhrTampa ==
    TampaTestCall =>
        LET local == TransitTable[arg] + (0 - pt.longitude) \div 15 + timezone * Unit
            dhuhr == PrayerMinutes(DictGet(ret, "Dhuhr", None))
        IN  /\ dhuhr = (local * 60) \div Unit
            /\ dhuhr = 13 * 60 + 29
            /\ dhuhr >= 13 * 60 + 25
            /\ dhuhr <= 13 * 60 + 35

C16_Witness ==
    /\ TampaTestCall
    /\ DictGet(ret, "Dhuhr", None) = <<"1", "3", ":", "2", "9">>

\* A clock string "HH:MM" with HH in 00..23 and MM in 00..59.
IsClockString(s) ==
    /\ Len(s) = 5
    /\ s[3] = ":"
    /\ \A i \in {1, 2, 4, 5} : s[i] \in DOMAIN DigitValues
    /\ ParseInt(SubSeq(s, 1, 2)) \in 0..23
    /\ ParseInt(SubSeq(s, 4, 5)) \in 0..59

\* cos_h before the clamp, for the sunrise angle of the call's date.
SunriseCosine ==
    CosHourAngleTable[<<pt.latitude, arg[1], arg[2], arg[3], -833>>]

\* C18: every value calculate_times passes to the inverse cosine, in
\* calculate_horizon_time and in the Asr computation, lies in [-1, 1], and
\* the call returns six clock strings and raises nothing, at the poles as
\* elsewhere.
C18_AcosDomain ==
    op = "calculate_times" =>
        /\ \A cos_h \in AcosArguments(CalcSelf, arg[1], arg[2], arg[3]) :
              cos_h >= 0 - Unit /\ cos_h <= Unit
        /\ ret # ValueError
        /\ Len(ret) = 6
        /\ \A i \in 1..6 : IsClockString(ret[i][2])

\* At a pole, with cos_h of the sunrise angle below -1 before the clamp: the
\* schedule is saturated (Sunrise twelve hours from Dhuhr).
C18_Witness ==
    /\ op = "calculate_times"
    /\ pt.latitude \in {90000000, -90000000}
    /\ SunriseCosine < 0 - Unit
    /\ Len(ret) = 6
    /\ (PrayerMinutes(DictGet(ret, "Dhuhr", None))
          - PrayerMinutes(DictGet(ret, "Sunrise", None)) + 1440) % 1440 = 720

\* C20: hours_to_time returns "HH:MM" with HH in 00..23 and MM in 00..59, the
\* truncated hour and minute of hours - longitude / 15 + timezone modulo 24
\* when the correction is applied (as calculate_times applies it), and of
\* hours modulo 24 when it is not.
C20_HoursToTime ==
    op = "hours_to_time" =>
        LET corrected == IF arg[2]
                         THEN arg[1] + (0 - pt.longitude) \div 15 + timezone * Unit
                         ELSE arg[1]
            norm == corrected % (24 * Unit)
        IN  /\ IsClockString(ret)
            /\ ParseInt(SubSeq(ret, 1, 2)) = norm \div Unit
            /\ ParseInt(SubSeq(ret, 4, 5)) = ((norm % Unit) * 60) \div Unit

\* Corrected hours below zero, on the last minute of the day.
C20_Witness ==
    /\ op = "hours_to_time"
    /\ arg[2]
    /\ arg[1] + (0 - pt.longitude) \div 15 + timezone * Unit < 0
    /\ ret = <<"2", "3", ":", "5", "9">>

\* get(key) returns the value the call that ran last has set.
GetReturnsNew ==
    /\ op' = "set" => settings'[arg'.key] = arg'.value
    /\ op' = "update_location" =>
          /\ settings'.latitude = arg'.city_data.lat
          /\ settings'.longitude = arg'.city_data.lon
          /\ settings'.timezone = arg'.city_data.tz
          /\ settings'.location_name = arg'.city_data.name
          /\ settings'.selected_city = arg'.city_data.name

\* C17 as stated: after every set and update_location, get returns the new
\* value and a Config constructed on the file holds the same value for every
\* key.
C17_Original ==
    [][ op' \in {"set", "update_location"} =>
          /\ GetReturnsNew
          /\ ConfigSettings(file') = settings'
      ]_vars

\* C17: after set and update_location, get returns the new value; when the
\* write succeeds the file is the dump of the settings and a Config
\* constructed on it holds the same value for every key; when open() raises
\* the file is as it was, and when the write raises a Config constructed on
\* what is left holds the defaults.
C17_RoundTrip ==
    [][ op' \in {"set", "update_location"} =>
          /\ GetReturnsNew
          /\ arg'.outcome = "written" =>
                (file' = JsonDump(settings') /\ ConfigSettings(file') = settings')
          /\ arg'.outcome = "open failed" => file' = file
          /\ arg'.outcome = "write failed" => ConfigSettings(file') = load_default_settings
      ]_vars

\* Los Angeles selected and saved: the file reads back as the settings.
C17_Witness ==
    /\ op = "update_location"
    /\ arg.outcome = "written"
    /\ settings.longitude = -118243700
    /\ settings.method = "Mecca"
    /\ ~settings.daylight_saving
    /\ settings # load_default_settings
    /\ ConfigSettings(file) = settings

\* C19: get_weekday returns the calendar's day of the week with 0 = Sunday,
\* 1 = Monday, ..., 6 = Saturday, and the days get_second_sunday_march and
\* get_first_sunday_november return are Sundays.
C19_WeekdaySundayZero ==
    /\ dstq.fn = "get_weekday" =>
          dstq.result = CalendarWeekday(dstq.year, dstq.month, dstq.day)
    /\ dstq.fn = "get_second_sunday_march" =>
          CalendarWeekday(dstq.year, 3, dstq.result) = 0
    /\ dstq.fn = "get_first_sunday_november" =>
          CalendarWeekday(dstq.year, 11, dstq.result) = 0

\* ------------------------------------------------------- the Julian day
\* Julian days are kept doubled, so that the .5 of every result is an integer.
\* math.floor(365.25 * n) is (1461 * n) \div 4 and math.floor(30.6001 * n) is
\* (306001 * n) \div 10000 for the years and months below.
JulianDay2(year, month, day, b) ==
    2 * ((1461 * (year + 4716)) \div 4 + (306001 * (month + 1)) \div 10000 + day + b)
      - 3049

\* "if month <= 2: year -= 1; month += 12"
ShiftedYear(year, month) == IF month <= 2 THEN year - 1 ELSE year

ShiftedMonth(month) == IF month <= 2 THEN month + 12 ELSE month

\* "a = floor(year / 100); b = 2 - a + floor(a / 4)"
GregorianCorrection(year) == 2 - (year \div 100) + ((year \div 100) \div 4)

\* PrayerTimes.gregorian_to_julian
gregorian_to_julian(year0, month0, day) ==
    LET year == ShiftedYear(year0, month0)
        month == ShiftedMonth(month0)
        b == GregorianCorrection(year)
    IN  JulianDay2(year, month, day, b)

\* HijriCalendar.gregorian_to_julian
hijri_gregorian_to_julian(year0, month0, day) ==
    LET year == ShiftedYear(year0, month0)
        month == ShiftedMonth(month0)
        b == IF \/ year < 1583
                \/ (year = 1582 /\ month < 10)
                \/ (year = 1582 /\ month = 10 /\ day < 15)
             THEN 0
             ELSE GregorianCorrection(year)
    IN  JulianDay2(year, month, day, b)

\* Dates given to the two conversions: either side of 1582-10-15 and of the
\* turn of a year, and the years the application runs in.
JulianYears == {1500, 1581, 1582, 1583, 1600, 2000, 2024, 2025}

JulianDays == {1, 4, 14, 15, 28}

InitJulian ==
    /\ settings = load_settings(SetupList[1], TRUE)
    /\ pt = PrayerTimes(load_settings(SetupList[1], TRUE), TRUE)
    /\ timezone = SetupList[1].timezone
    /\ rtc = Clock(DateList[1])
    /\ prayer_times_cache = <<>>
    /\ last_update_day = NoDay
    /\ op = "init"
    /\ arg = None
    /\ ret = None
    /\ recomputed = FALSE
    /\ dstChanged = FALSE
    /\ computed_for = NotComputed
    /\ dstq = Idle
    /\ LoopIdle
    /\ file = NoFile

FrameJulian ==
    UNCHANGED <<rtc, settings, pt, timezone, prayer_times_cache, last_update_day,
                recomputed, dstChanged, computed_for, dstq, file, LoopVars>>

\* PrayerTimes.gregorian_to_julian(year, month, day)
GregorianToJulian ==
    \E year \in JulianYears, month \in 1..12, day \in JulianDays :
        /\ op' = "PrayerTimes.gregorian_to_julian"
        /\ arg' = <<year, month, day>>
        /\ ret' = gregorian_to_julian(year, month, day)
        /\ FrameJulian

\* HijriCalendar.gregorian_to_julian(year, month, day)
HijriGregorianToJulian ==
    \E year \in JulianYears, month \in 1..12, day \in JulianDays :
        /\ op' = "HijriCalendar.gregorian_to_julian"
        /\ arg' = <<year, month, day>>
        /\ ret' = hijri_gregorian_to_julian(year, month, day)
        /\ FrameJulian

NextJulian ==
    \/ GregorianToJulian
    \/ HijriGregorianToJulian

SpecJulian == InitJulian /\ [][NextJulian]_vars

\* A date on or after 1582-10-15.
OnOrAfterReform(date) ==
    \/ date[1] > 1582
    \/ (date[1] = 1582 /\ date[2] > 10)
    \/ (date[1] = 1582 /\ date[2] = 10 /\ date[3] >= 15)

IsJulianCall == op \in {"PrayerTimes.gregorian_to_julian", "HijriCalendar.gregorian_to_julian"}

\* C21: each gregorian_to_julian returns the Julian day computed with January
\* and February as months 13 and 14 of the previous year and with the
\* correction term 2 - a + floor(a/4) for a date on or after 1582-10-15 and 0 for
\* an earlier date.
C21_CorrectionFromReform ==
    IsJulianCall =>
        ret = JulianDay2(ShiftedYear(arg[1], arg[2]), ShiftedMonth(arg[2]), arg[3],
                         IF OnOrAfterReform(arg)
                         THEN GregorianCorrection(ShiftedYear(arg[1], arg[2]))
                         ELSE 0)

\* ------------------------------------------------- seconds and calendar fields
\* Days from 1970-01-01 to a date of the proleptic Gregorian calendar.
days_from_civil(year0, month, day) ==
    LET year == IF month <= 2 THEN year0 - 1 ELSE year0
        era == year \div 400
        yoe == year - era * 400
        mp == IF month > 2 THEN month - 3 ELSE month + 9
        doy == (153 * mp + 2) \div 5 + day - 1
        doe == yoe * 365 + yoe \div 4 - yoe \div 100 + doy
    IN  era * 146097 + doe - 719468

\* The date a number of days after 1970-01-01.
civil_from_days(days) ==
    LET z == days + 719468
        era == z \div 146097
        doe == z - era * 146097
        yoe == (doe - doe \div 1460 + doe \div 36524 - doe \div 146096) \div 365
        doy == doe - (365 * yoe + yoe \div 4 - yoe \div 100)
        mp == (5 * doy + 2) \div 153
        day == doy - (153 * mp + 2) \div 5 + 1
        month == IF mp < 10 THEN mp + 3 ELSE mp - 9
        year == yoe + era * 400 + (IF month <= 2 THEN 1 ELSE 0)
    IN  <<year, month, day>>

SecondsPerDay == 86400

\* time.time(): the seconds the RTC's date and time of day stand for.
mktime(date, tod) ==
    days_from_civil(date.year, date.month, date.day) * SecondsPerDay
        + tod.hour * 3600 + tod.minute * 60 + tod.second

\* time.gmtime(timestamp): the calendar fields of a number of seconds.
gmtime(timestamp) ==
    LET days == timestamp \div SecondsPerDay
        secs == timestamp % SecondsPerDay
    IN  [date |-> Clock(civil_from_days(days)),
         tod |-> TimeOfDay(secs \div 3600, (secs % 3600) \div 60, secs % 60)]

\* ------------------------------------------------------------ WiFiTimeSync
\* self.ntp_servers
ntp_servers == <<"pool.ntp.org", "time.nist.gov", "time.google.com", "0.pool.ntp.org">>

\* get_ntp_time: the except branch returns None, and so does a server that
\* did not answer; otherwise the Unix timestamp of the answer.
NoAnswer == [error |-> TRUE, timestamp |-> 0]

Answer(timestamp) == [error |-> FALSE, timestamp |-> timestamp]

\* "if timestamp:"
Truthy(answer) == ~answer.error /\ answer.timestamp # 0

RECURSIVE FirstAnswer(_, _)

\* The loop of sync_time_from_ntp going on to the last server that answers.
FirstAnswer_last(answers, i) ==
    LET later == { j \in i..Len(ntp_servers) : Truthy(answers[j]) }
    IN  IF later = {} THEN 0
        ELSE CHOOSE j \in later : \A k \in later : k <= j

\* The for loop of sync_time_from_ntp from server i: the index of the server
\* whose answer is used, 0 when the loop ends without one.
FirstAnswer(answers, i) ==
    IF i > Len(ntp_servers) THEN 0
    ELSE IF Truthy(answers[i]) THEN i
    ELSE FirstAnswer(answers, i + 1)

\* sync_time_from_ntp: the servers queried, the result, and the RTC after it.
\* get_current_timezone_offset reads time.localtime(): the date the RTC shows
\* when the call is made.
sync_time_from_ntp(cfg, date, tod, answers) ==
    LET i == FirstAnswer(answers, 1)
    IN  IF i = 0
        THEN [ok |-> FALSE, date |-> date, tod |-> tod,
              queried |-> ntp_servers]
        ELSE LET tz_offset == get_current_timezone_offset(cfg.timezone,
                                                           cfg.daylight_saving, date)
                 local_time == gmtime(answers[i].timestamp + tz_offset * 3600)
             IN  [ok |-> TRUE, date |-> local_time.date, tod |-> local_time.tod,
                  queried |-> SubSeq(ntp_servers, 1, i)]

\* auto_sync_time: without a connection (no SSID, a timeout, an exception)
\* it returns False before any server is queried.
auto_sync_time(cfg, date, tod, wifi, answers) ==
    IF wifi = "down"
    THEN [ok |-> FALSE, date |-> date, tod |-> tod, queried |-> <<>>]
    ELSE sync_time_from_ntp(cfg, date, tod, answers)

\* scheduled_sync trying whenever it is called.
scheduled_sync_every_call(cfg, date, tod, wifi, answers) ==
    LET current_time == mktime(date, tod)
        sync == auto_sync_time(cfg, date, tod, wifi, answers)
    IN  [attempted |-> TRUE, ok |-> sync.ok, date |-> sync.date, tod |-> sync.tod,
         queried |-> sync.queried,
         settings |-> IF sync.ok THEN [cfg EXCEPT !.last_ntp_sync = current_time]
                      ELSE cfg]

\* scheduled_sync: what it did, the RTC and the settings after it.
scheduled_sync(cfg, date, tod, wifi, answers) ==
    LET last_sync == cfg.last_ntp_sync
        current_time == mktime(date, tod)
        sync_interval == cfg.ntp_sync_interval
    IN  IF current_time - last_sync > sync_interval
        THEN LET sync == auto_sync_time(cfg, date, tod, wifi, answers)
             IN  [attempted |-> TRUE, ok |-> sync.ok, date |-> sync.date,
                  tod |-> sync.tod, queried |-> sync.queried,
                  settings |-> IF sync.ok
                               THEN [cfg EXCEPT !.last_ntp_sync = current_time]
                               ELSE cfg]
        ELSE [attempted |-> FALSE, ok |-> FALSE, date |-> date, tod |-> tod,
              queried |-> <<>>, settings |-> cfg]

\* ------------------------------------------------------ the application
\* Config.settings with the keys MuslimCompanion and WiFiTimeSync read;
\* sleep_mode_enabled and sleep_timeout hold the defaults their get() calls
\* give until a menu sets them.
AppSettings(setup, dst) ==
    [latitude |-> setup.latitude, longitude |-> setup.longitude,
     timezone |-> setup.timezone, method |-> setup.method,
     daylight_saving |-> dst, last_prayer_update |-> None,
     ntp_enabled |-> TRUE, ntp_sync_interval |-> 86400, last_ntp_sync |-> 0,
     sleep_mode_enabled |-> FALSE, sleep_timeout |-> 30]

\* The application's state as its methods read and change it, with the calls
\* counted from NoTrace.
World ==
    [app |-> app, settings |-> settings, timezone |-> timezone,
     cache |-> prayer_times_cache, last |-> last_update_day, cf |-> computed_for,
     date |-> rtc, tod |-> rtc_time, ticks |-> ticks_ms, trace |-> NoTrace]

\* Seconds pass while a call blocks: the RTC and the tick counter advance.
Elapsed(w, seconds) ==
    LET t == gmtime(mktime(w.date, w.tod) + seconds)
    IN  [w EXCEPT !.date = t.date, !.tod = t.tod, !.ticks = @ + seconds * 1000]

\* The calculator's fields and the count of calls after update_prayer_times
\* returned r.
Updated(w, r) ==
    [w EXCEPT !.timezone = r.timezone, !.cache = r.cache, !.last = r.last,
              !.cf = IF r.recomputed
                     THEN [year |-> w.date.year, month |-> w.date.month,
                           day |-> w.date.day, timezone |-> r.timezone]
                     ELSE @,
              !.trace.updates = @ + 1]

\* MuslimCompanion.update_prayer_times
app_update_prayer_times(w) ==
    Updated(w, update_prayer_times(w.timezone, w.cache, w.last, w.date, w.settings))

\* "if not self.prayer_times_cache: self.update_prayer_times()" of the readers
ensure_cache(w) == IF w.cache = <<>> THEN app_update_prayer_times(w) ELSE w

\* update_display: nothing while sleeping; otherwise get_next_prayer and
\* get_prayer_times are read and the tab is drawn. current_tab is never
\* 'settings': the menus return True, 'hijri' or 'prayer', and handle_input
\* opens the menu itself instead of switching to that tab.
update_display(w) ==
    IF w.app.is_sleeping THEN w
    ELSE [ensure_cache(w) EXCEPT !.trace.draws = @ + 1]

\* update_time_only
update_time_only(w) ==
    IF w.app.is_sleeping THEN w
    ELSE [w EXCEPT !.trace.draws = @ + 1]

\* enter_sleep_mode
enter_sleep_mode(w) ==
    IF ~w.app.is_sleeping
    THEN [w EXCEPT !.app.is_sleeping = TRUE, !.trace.sleeps = @ + 1]
    ELSE w

\* wake_from_sleep
wake_from_sleep(w) ==
    IF w.app.is_sleeping
    THEN update_display([w EXCEPT !.app.is_sleeping = FALSE,
                                  !.app.last_activity_time = w.ticks])
    ELSE w

\* update_activity_time
update_activity_time(w) ==
    wake_from_sleep([w EXCEPT !.app.last_activity_time = w.ticks])

\* check_sleep_timeout entering sleep mode whatever sleep_mode_enabled says.
check_sleep_timeout_always_enabled(w) ==
    IF w.app.is_sleeping THEN w
    ELSE IF w.ticks - w.app.last_activity_time > w.settings.sleep_timeout * 1000
         THEN enter_sleep_mode(w)
    ELSE w

\* check_sleep_timeout
check_sleep_timeout(w) ==
    IF ~w.settings.sleep_mode_enabled THEN w
    ELSE IF w.app.is_sleeping THEN w
    ELSE IF w.ticks - w.app.last_activity_time > w.settings.sleep_timeout * 1000
         THEN enter_sleep_mode(w)
    ELSE w

\* The timeouts the Sleep Timeout item cycles through.
timeouts == <<10, 30, 60, 120, 300>>

NextTimeout(current) ==
    IF \E i \in 1..Len(timeouts) : timeouts[i] = current
    THEN timeouts[((CHOOSE i \in 1..Len(timeouts) : timeouts[i] = current) % Len(timeouts)) + 1]
    ELSE timeouts[1]

\* What the user does in the settings menu before leaving it: the item
\* selected, how the menu is left, and the seconds it stayed open.
MenuEdits == {"none", "Daylight Saving", "Sleep Mode", "Sleep Timeout"}

MenuResults == {"True", "hijri", "prayer"}

\* SimpleSettings.show_settings_menu: items 5, 10 and 11 set their key.
MenuEdit(cfg, edit) ==
    IF edit = "Daylight Saving" THEN [cfg EXCEPT !.daylight_saving = ~@]
    ELSE IF edit = "Sleep Mode" THEN [cfg EXCEPT !.sleep_mode_enabled = ~@]
    ELSE IF edit = "Sleep Timeout" THEN [cfg EXCEPT !.sleep_timeout = NextTimeout(@)]
    ELSE cfg

\* switch_tab
switch_tab(w, tab_name) == update_display([w EXCEPT !.app.current_tab = tab_name])

\* show_settings and the lines that follow each of its calls in handle_input:
\* "if result == True: update_display() elif isinstance(result, str):
\* switch_tab(result)".
show_settings(w, menu) ==
    LET w1 == Elapsed([w EXCEPT !.settings = MenuEdit(@, menu.edit)], menu.seconds)
    IN  IF menu.result = "True" THEN update_display(w1)
        ELSE switch_tab(w1, menu.result)

TabIndex(tab) == CHOOSE i \in 1..Len(Tabs) : Tabs[i] = tab

\* The joystick moved left (step -1) or right (step 1).
joystick_tab(w, step, menu) ==
    LET new_index == ((TabIndex(w.app.current_tab) - 1 + step + Len(Tabs)) % Len(Tabs)) + 1
    IN  IF Tabs[new_index] = "settings" THEN show_settings(w, menu)
        ELSE switch_tab(w, Tabs[new_index])

\* The refresh of button 2, of the joystick button and of the refresh area.
refresh_tab(w) ==
    IF w.app.current_tab = "prayer" THEN update_display(app_update_prayer_times(w))
    ELSE update_display(w)

\* The inputs one call of handle_input can detect.
Inputs ==
    {"none", "legacy button", "left", "right", "up", "button 1", "button 2",
     "touch", "touch refresh", "touch hijri"}

\* handle_input: the branches of the legacy button, of the joystick moved
\* left or right, of button 1 and of button 2 end with return.
handle_input(w, input, menu) ==
    IF input = "none" THEN w
    ELSE IF input = "legacy button" THEN show_settings(w, menu)
    ELSE IF input = "left" THEN joystick_tab(w, -1, menu)
    ELSE IF input = "right" THEN joystick_tab(w, 1, menu)
    ELSE IF input = "up" THEN update_activity_time(w)
    ELSE IF input = "button 1"
         THEN IF w.app.current_tab = "prayer"
              THEN IF w.app.is_sleeping THEN wake_from_sleep(w) ELSE enter_sleep_mode(w)
              ELSE show_settings(w, menu)
    ELSE IF input = "button 2" THEN refresh_tab(w)
    ELSE IF input = "touch" THEN update_activity_time(w)
    ELSE IF input = "touch refresh" THEN update_activity_time(refresh_tab(w))
    ELSE update_activity_time(switch_tab(w, "hijri"))

\* The seconds the alert holds the screen: "time.sleep(2)".
AlertSeconds == 2

\* The alert of check_prayer_time_alert: the prayer is shown for
\* AlertSeconds, then the display is redrawn and the activity time updated.
Alerted(w, prayer_name) ==
    IF prayer_name = None THEN w
    ELSE update_activity_time(update_display(Elapsed(
             [wake_from_sleep(w) EXCEPT !.trace.alerts = Append(@, prayer_name)],
             AlertSeconds)))

\* "prayer_name = self.prayer_calc.check_prayer_time_alert(hour, minute)",
\* w being the state after the calculator filled an empty cache.
AlertFor(w, hour, minute) == Alerted(w, check_prayer_time_alert(w.cache, hour, minute))

\* MuslimCompanion.check_prayer_time_alert(hour, minute, last_check)
app_check_prayer_time_alert(w, hour, minute, last_check) ==
    IF FormatHHMM(hour, minute) = last_check
    THEN [w EXCEPT !.trace.alert_checks = @ + 1]
    ELSE AlertFor(ensure_cache([w EXCEPT !.trace.alert_checks = @ + 1]), hour, minute)

\* ------------------------------------------------------------ the main loop
\* Seconds the model follows the loop for, and the longest stay in the menu.
Horizon == 3

MenuSeconds == 2

\* What happens in a menu opened from the loop: left at once or after
\* MenuSeconds, with or without the Daylight Saving item selected.
LoopMenus ==
    [edit : {"none", "Daylight Saving"}, result : {"True", "hijri"},
     seconds : {0, MenuSeconds}]

\* The menu opened and left at once.
NoMenu == [edit |-> "none", result |-> "True", seconds |-> 0]

\* The network as scheduled_sync finds it in the loop: no connection, no
\* server answering, or a first server answering with the time the RTC shows.
LoopNets == {"down", "silent", "in time"}

NetAnswers(net, cfg, date, tod) ==
    IF net = "in time"
    THEN [i \in 1..Len(ntp_servers) |->
            Answer(mktime(date, tod)
                   - 3600 * get_current_timezone_offset(cfg.timezone,
                                                         cfg.daylight_saving, date))]
    ELSE [i \in 1..Len(ntp_servers) |-> NoAnswer]

\* The time of day a number of seconds after midnight.
TimeAt(seconds) ==
    TimeOfDay((seconds % SecondsPerDay) \div 3600, (seconds % 3600) \div 60, seconds % 60)

\* run up to its loop: update_prayer_times() and update_display() are called
\* and the locals are set. The loop is entered two seconds before midnight or
\* two seconds before the minute of Dhuhr.
InitLoop ==
    /\ \E date \in Dates :
          LET cfg == AppSettings(SetupList[1], TRUE)
              calc == PrayerTimes(cfg, TRUE)
              tz == get_current_timezone_offset(cfg.timezone, TRUE, Clock(date))
              cache == calculate_times(
                           [latitude |-> calc.latitude, longitude |-> calc.longitude,
                            timezone |-> tz, calculation_method |-> calc.calculation_method,
                            asr_madhab |-> calc.asr_madhab],
                           date[1], date[2], date[3])
          IN  /\ settings = cfg
              /\ pt = calc
              /\ rtc = Clock(date)
              /\ timezone = tz
              /\ prayer_times_cache = cache
              /\ last_update_day = date[3]
              /\ computed_for = [year |-> date[1], month |-> date[2], day |-> date[3],
                                 timezone |-> tz]
              /\ rtc_time \in { TimeOfDay(23, 59, 58),
                                TimeAt(PrayerMinutes(DictGet(cache, "Dhuhr", None)) * 60 - 2) }
    /\ ticks_ms = 0
    /\ app = NewApp(0)
    /\ run = NewRun
    /\ trace = NoTrace
    /\ op = "init"
    /\ arg = None
    /\ ret = None
    /\ recomputed = FALSE
    /\ dstChanged = FALSE
    /\ dstq = Idle
    /\ file = NoFile

\* The RTC counts a second. An iteration takes a twentieth of a second
\* unless a call in it blocks, so the loop has read every second the RTC
\* reaches this way; the seconds that pass in a blocking call pass within
\* the iteration.
Tick ==
    /\ ticks_ms < Horizon * 1000
    /\ run.last_second = rtc_time.second
    /\ LET t == gmtime(mktime(rtc, rtc_time) + 1)
       IN  /\ rtc' = t.date
           /\ rtc_time' = t.tod
    /\ ticks_ms' = ticks_ms + 1000
    /\ op' = "tick"
    /\ UNCHANGED <<settings, pt, timezone, prayer_times_cache, last_update_day, arg, ret,
                   recomputed, dstChanged, computed_for, dstq, file, app, run, trace>>

\* "if second != last_second: self.update_time_only()"
TimeStep(w) ==
    IF rtc_time.second # run.last_second THEN update_time_only(w) ELSE w

\* "if minute != last_minute or screen_needs_refresh"
Refresh == rtc_time.minute # run.last_minute \/ run.screen_needs_refresh

\* The refresh block: update_display(), last_minute = minute.
RefreshStep(w) == IF Refresh THEN update_display(w) ELSE w

\* last_minute after the refresh block.
LastMinute == IF Refresh THEN rtc_time.minute ELSE run.last_minute

\* "if minute != last_minute:" after the refresh block.
Alert == rtc_time.minute # LastMinute

AlertStep(w) ==
    IF Alert
    THEN app_check_prayer_time_alert(w, rtc_time.hour, rtc_time.minute, run.last_prayer_check)
    ELSE w

\* "if hour == 0 and minute == 0 and second == 0"
Midnight == rtc_time.hour = 0 /\ rtc_time.minute = 0 /\ rtc_time.second = 0

MidnightStep(w) == IF Midnight THEN app_update_prayer_times(w) ELSE w

\* "if minute == 0 and second == 0 and self.config.get('ntp_enabled', True)"
Hourly(w) == rtc_time.minute = 0 /\ rtc_time.second = 0 /\ w.settings.ntp_enabled

\* The end of the body: the state and the locals after scheduled_sync
\* returned sync, when it was called.
SyncStep(w, sync) ==
    [w |-> IF Hourly(w)
           THEN [w EXCEPT !.settings = sync.settings, !.date = sync.date,
                          !.tod = sync.tod,
                          !.trace.sync_attempts = IF sync.attempted THEN 1 ELSE 0,
                          !.trace.queried = sync.queried]
           ELSE w,
     run |-> [last_second |-> rtc_time.second, last_minute |-> LastMinute,
              screen_needs_refresh |-> Midnight \/ (Hourly(w) /\ sync.attempted /\ sync.ok),
              last_prayer_check |-> IF Alert
                                    THEN FormatHHMM(rtc_time.hour, rtc_time.minute)
                                    ELSE run.last_prayer_check]]

SyncOf(w, net) ==
    SyncStep(w, scheduled_sync(w.settings, w.date, w.tod,
                               IF net = "down" THEN "down" ELSE "up",
                               NetAnswers(net, w.settings, w.date, w.tod)))

\* The body of the while loop of run, from rtc.datetime() to time.sleep(0.05):
\* hour, minute and second are those read at its top.
LoopBody(input, menu, net) ==
    SyncOf(MidnightStep(AlertStep(check_sleep_timeout(
               handle_input(RefreshStep(TimeStep(World)), input, menu)))), net)

\* The inputs the loop's handle_input detects in the model.
LoopInputs == {"none", "left", "button 1", "button 2"}

\* One iteration of the loop with the input handle_input finds, what happens
\* in the menu it may open, and the network scheduled_sync finds.
Iterate(input, menu, net) ==
    /\ input \in {"none", "button 2"} => menu = NoMenu
    /\ ~(rtc_time.minute = 0 /\ rtc_time.second = 0) => net = "down"
    /\ ticks_ms + menu.seconds * 1000 <= Horizon * 1000
    /\ \E b \in {LoopBody(input, menu, net)} :
           /\ app' = b.w.app
           /\ settings' = b.w.settings
           /\ timezone' = b.w.timezone
           /\ prayer_times_cache' = b.w.cache
           /\ last_update_day' = b.w.last
           /\ computed_for' = b.w.cf
           /\ rtc' = b.w.date
           /\ rtc_time' = b.w.tod
           /\ ticks_ms' = b.w.ticks
           /\ trace' = b.w.trace
           /\ run' = b.run
    /\ op' = "run"
    /\ UNCHANGED <<pt, arg, ret, recomputed, dstChanged, dstq, file>>

\* One iteration of the loop.
Iteration ==
    \E input \in LoopInputs, menu \in LoopMenus, net \in LoopNets :
        Iterate(input, menu, net)

\* An iteration in which handle_input finds no input.
QuietIteration == \E net \in LoopNets : Iterate("none", NoMenu, net)

NextLoop ==
    \/ Tick
    \/ Iteration

SpecLoop == InitLoop /\ [][NextLoop]_vars

\* The state a body of the loop leaves, as vars lists it.
AfterBody(b) ==
    <<b.w.date, b.w.settings, pt, b.w.timezone, b.w.cache, b.w.last, "run", arg, ret,
      recomputed, dstChanged, b.w.cf, dstq, file,
      <<b.w.tod, b.w.ticks, b.w.app, b.run, b.w.trace>> >>

\* ENABLED <<QuietIteration>>_vars: an iteration without input would change
\* the state.
QuietPending ==
    \E net \in LoopNets :
        /\ ~(rtc_time.minute = 0 /\ rtc_time.second = 0) => net = "down"
        /\ ticks_ms <= Horizon * 1000
        /\ AfterBody(LoopBody("none", NoMenu, net)) # vars

\* The loop keeps iterating and the RTC keeps counting; no input is ever
\* due. The first conjunct is WF_vars(QuietIteration) with its ENABLED
\* written out.
SpecLoopFair ==
    /\ SpecLoop
    /\ (<>[]QuietPending) => ([]<><<QuietIteration>>_vars)
    /\ WF_vars(Tick)

\* ------------------------------------------- the application's methods
\* Seconds the model follows the application for, and the waits between two
\* calls: the shortest sleep timeout and one second more.
Patience == 21

Waits == {timeouts[1], timeouts[1] + 1}

\* What happens in a menu opened by handle_input: left at once, with or
\* without one of the sleep items selected.
AppMenus == [edit : {"none", "Sleep Mode", "Sleep Timeout"}, result : MenuResults,
             seconds : {0}]

\* The application after run entered its loop, with the sleep settings a
\* settings file may hold.
InitApp ==
    /\ \E sleep \in BOOLEAN :
          LET cfg == [AppSettings(SetupList[1], TRUE) EXCEPT !.sleep_mode_enabled = sleep]
              calc == PrayerTimes(cfg, TRUE)
              date == DateList[1]
              tz == get_current_timezone_offset(cfg.timezone, TRUE, Clock(date))
              cache == calculate_times(
                           [latitude |-> calc.latitude, longitude |-> calc.longitude,
                            timezone |-> tz, calculation_method |-> calc.calculation_method,
                            asr_madhab |-> calc.asr_madhab],
                           date[1], date[2], date[3])
          IN  /\ settings = cfg
              /\ pt = calc
              /\ rtc = Clock(date)
              /\ timezone = tz
              /\ prayer_times_cache = cache
              /\ last_update_day = date[3]
              /\ computed_for = [year |-> date[1], month |-> date[2], day |-> date[3],
                                 timezone |-> tz]
    /\ rtc_time = TimeOfDay(12, 0, 0)
    /\ ticks_ms = 0
    /\ app = NewApp(0)
    /\ run = NewRun
    /\ trace = NoTrace
    /\ op = "init"
    /\ arg = None
    /\ ret = None
    /\ recomputed = FALSE
    /\ dstChanged = FALSE
    /\ dstq = Idle
    /\ file = NoFile

\* The state a method of the application leaves.
Becomes(w) ==
    /\ app' = w.app
    /\ settings' = w.settings
    /\ timezone' = w.timezone
    /\ prayer_times_cache' = w.cache
    /\ last_update_day' = w.last
    /\ computed_for' = w.cf
    /\ rtc' = w.date
    /\ rtc_time' = w.tod
    /\ ticks_ms' = w.ticks
    /\ trace' = w.trace
    /\ UNCHANGED <<pt, ret, recomputed, dstChanged, dstq, file, run>>

\* handle_input() finding one input.
HandleInput ==
    \E input \in Inputs, menu \in AppMenus :
        /\ Becomes(handle_input(World, input, menu))
        /\ op' = "handle_input"
        /\ arg' = input

\* check_sleep_timeout()
CheckSleepTimeout ==
    /\ Becomes(check_sleep_timeout(World))
    /\ op' = "check_sleep_timeout"
    /\ arg' = None

\* update_display()
UpdateDisplay ==
    /\ Becomes(update_display(World))
    /\ op' = "update_display"
    /\ arg' = None

\* update_time_only()
UpdateTimeOnly ==
    /\ Becomes(update_time_only(World))
    /\ op' = "update_time_only"
    /\ arg' = None

\* Time passes between two calls.
Wait ==
    \E seconds \in Waits :
        /\ ticks_ms + seconds * 1000 <= Patience * 1000
        /\ Becomes([Elapsed(World, seconds) EXCEPT !.trace = trace])
        /\ op' = "wait"
        /\ arg' = None

NextApp ==
    \/ HandleInput
    \/ CheckSleepTimeout
    \/ UpdateDisplay
    \/ UpdateTimeOnly
    \/ Wait

SpecApp == InitApp /\ [][NextApp]_vars

\* ---------------------------------------------------------- the time sync
\* The times the NTP servers report: 17:00:00 UTC on each date.
NtpTimes == [i \in 1..NumDates |-> mktime(Clock(DateList[i]), TimeOfDay(17, 0, 0))]

\* What the four servers would answer to one call: the servers before the
\* first do not answer, the others report the times of NtpTimes in turn from
\* index shift on; first = 0 has no server answer.
ServerAnswers(first, shift) ==
    [i \in 1..Len(ntp_servers) |->
        IF first = 0 \/ i < first THEN NoAnswer
        ELSE Answer(NtpTimes[((i + shift) % NumDates) + 1])]

InitSync ==
    /\ \E dst \in BOOLEAN :
          /\ settings = AppSettings(SetupList[1], dst)
          /\ pt = PrayerTimes(AppSettings(SetupList[1], dst), TRUE)
    /\ timezone = SetupList[1].timezone
    /\ \E date \in Dates : rtc = Clock(date)
    /\ rtc_time = TimeOfDay(12, 0, 0)
    /\ prayer_times_cache = <<>>
    /\ last_update_day = NoDay
    /\ op = "init"
    /\ arg = None
    /\ ret = None
    /\ recomputed = FALSE
    /\ dstChanged = FALSE
    /\ computed_for = NotComputed
    /\ dstq = Idle
    /\ file = NoFile
    /\ ticks_ms = 0
    /\ app = NewApp(0)
    /\ run = NewRun
    /\ trace = NoTrace

FrameSync ==
    UNCHANGED <<pt, timezone, prayer_times_cache, last_update_day, recomputed,
                dstChanged, computed_for, dstq, file, ticks_ms, app, run>>

\* sync_time_from_ntp()
SyncTimeFromNtp ==
    \E first \in 0..Len(ntp_servers), shift \in 1..NumDates :
        LET answers == ServerAnswers(first, shift)
            r == sync_time_from_ntp(settings, rtc, rtc_time, answers)
        IN  /\ op' = "sync_time_from_ntp"
            /\ arg' = answers
            /\ ret' = r.ok
            /\ rtc' = r.date
            /\ rtc_time' = r.tod
            /\ trace' = [NoTrace EXCEPT !.queried = r.queried]
            /\ UNCHANGED settings
            /\ FrameSync

\* scheduled_sync(), with or without a Wi-Fi connection.
ScheduledSync ==
    \E wifi \in {"up", "down"}, first \in 0..Len(ntp_servers), shift \in 1..NumDates :
        LET answers == ServerAnswers(first, shift)
            r == scheduled_sync(settings, rtc, rtc_time, wifi, answers)
        IN  /\ wifi = "down" => first = 0 /\ shift = 1
            /\ op' = "scheduled_sync"
            /\ arg' = answers
            /\ ret' = (r.attempted /\ r.ok)
            /\ rtc' = r.date
            /\ rtc_time' = r.tod
            /\ settings' = r.settings
            /\ trace' = [NoTrace EXCEPT !.queried = r.queried,
                                        !.sync_attempts = IF r.attempted THEN 1 ELSE 0]
            /\ FrameSync

\* Half a day passes, up to the day after a date of the model.
HalfDay ==
    /\ \E i \in 1..NumDates : rtc = Clock(DateList[i])
    /\ LET t == gmtime(mktime(rtc, rtc_time) + SecondsPerDay \div 2)
       IN  /\ rtc' = t.date
           /\ rtc_time' = t.tod
    /\ op' = "wait"
    /\ arg' = None
    /\ ret' = None
    /\ UNCHANGED <<settings, trace>>
    /\ FrameSync

NextSync ==
    \/ SyncTimeFromNtp
    \/ ScheduledSync
    \/ HalfDay

SpecSync == InitSync /\ [][NextSync]_vars

\* ------------------------------------------------- the settings menu
\* Config.get_us_cities, in micro-degrees.
get_us_cities ==
    << [name |-> "New York", lat |-> 40712800, lon |-> -74006000, tz |-> -5],
       [name |-> "Los Angeles", lat |-> 34052200, lon |-> -118243700, tz |-> -8],
       [name |-> "Chicago", lat |-> 41878100, lon |-> -87629800, tz |-> -6],
       [name |-> "Houston", lat |-> 29760400, lon |-> -95369800, tz |-> -6],
       [name |-> "Phoenix", lat |-> 33448400, lon |-> -112074000, tz |-> -7],
       [name |-> "Philadelphia", lat |-> 39952600, lon |-> -75165200, tz |-> -5],
       [name |-> "San Antonio", lat |-> 29424100, lon |-> -98493600, tz |-> -6],
       [name |-> "San Diego", lat |-> 32715700, lon |-> -117161100, tz |-> -8],
       [name |-> "Dallas", lat |-> 32776700, lon |-> -96797000, tz |-> -6],
       [name |-> "Detroit", lat |-> 42331400, lon |-> -83045800, tz |-> -5],
       [name |-> "Miami", lat |-> 25761700, lon |-> -80191800, tz |-> -5],
       [name |-> "Boston", lat |-> 42360100, lon |-> -71058900, tz |-> -5],
       [name |-> "Seattle", lat |-> 47606200, lon |-> -122332100, tz |-> -8],
       [name |-> "Denver", lat |-> 39739200, lon |-> -104990300, tz |-> -7],
       [name |-> "Washington DC", lat |-> 38907200, lon |-> -77036900, tz |-> -5],
       [name |-> "Atlanta", lat |-> 33749000, lon |-> -84388000, tz |-> -5],
       [name |-> "Las Vegas", lat |-> 36169900, lon |-> -115139800, tz |-> -8],
       [name |-> "San Francisco", lat |-> 37774900, lon |-> -122419400, tz |-> -8],
       [name |-> "Portland", lat |-> 45515200, lon |-> -122678400, tz |-> -8],
       [name |-> "Minneapolis", lat |-> 44977800, lon |-> -93265000, tz |-> -6],
       [name |-> "Salt Lake City", lat |-> 40760800, lon |-> -111891000, tz |-> -7],
       [name |-> "Kansas City", lat |-> 39099700, lon |-> -94578600, tz |-> -6],
       [name |-> "St. Louis", lat |-> 38627000, lon |-> -90199400, tz |-> -6],
       [name |-> "Orlando", lat |-> 28538300, lon |-> -81379200, tz |-> -5],
       [name |-> "Tampa", lat |-> 27950600, lon |-> -82457200, tz |-> -5] >>

\* "for i, city in enumerate(cities): if city['name'] == current": the index
\* of the current city, the first when the name is not in the list.
CurrentIndex(cities, current) ==
    IF \E i \in 1..Len(cities) : cities[i].name = current
    THEN CHOOSE i \in 1..Len(cities) :
            /\ cities[i].name = current
            /\ \A j \in 1..(i - 1) : cities[j].name # current
    ELSE 1

\* Item 3 (Location): the city after the current one, the list taken as a ring.
NextCity(cfg) ==
    LET cities == get_us_cities
        current_idx == CurrentIndex(cities, cfg.location_name)
    IN  cities[(current_idx % Len(cities)) + 1]

\* Item 4 (Calc Method): methods[(idx + 1) % len(methods)], methods[0] when
\* the current method is not in the list.
calc_methods == <<"ISNA", "MWL", "Mecca">>

NextMethod(cfg) ==
    IF \E i \in 1..Len(calc_methods) : calc_methods[i] = cfg.method
    THEN calc_methods[((CHOOSE i \in 1..Len(calc_methods) : calc_methods[i] = cfg.method) % Len(calc_methods)) + 1]
    ELSE calc_methods[1]

\* The application starts with the settings of a stored location and method
\* and constructs the calculator from them.
InitMenu ==
    /\ \E setup \in Setups, dst \in BOOLEAN :
          /\ settings = DictUpdate(load_default_settings, load_settings(setup, dst))
          /\ pt = PrayerTimes(settings, TRUE)
          /\ timezone = setup.timezone
    /\ rtc = Clock(DateList[1])
    /\ prayer_times_cache = <<>>
    /\ last_update_day = NoDay
    /\ op = "init"
    /\ arg = None
    /\ ret = None
    /\ recomputed = FALSE
    /\ dstChanged = FALSE
    /\ computed_for = NotComputed
    /\ dstq = Idle
    /\ LoopIdle
    /\ file = NoFile

MenuItem(cfg, item) ==
    /\ settings' = cfg
    /\ op' = "show_settings_menu"
    /\ arg' = item
    /\ ret' = None
    /\ recomputed' = FALSE
    /\ dstChanged' = (dstChanged \/ cfg.daylight_saving # settings.daylight_saving)
    /\ UNCHANGED <<rtc, pt, timezone, prayer_times_cache, last_update_day,
                   computed_for, dstq, file, LoopVars>>

\* SimpleSettings.show_settings_menu, item 3 (Location).
SimpleSettingsLocation ==
    MenuItem(update_location(settings, NextCity(settings)), "Location")

\* SimpleSettings.show_settings_menu, item 4 (Calc Method).
SimpleSettingsCalcMethod ==
    MenuItem(ConfigSet(settings, "method", NextMethod(settings)), "Calc Method")

\* SimpleSettings.show_settings_menu, item 5 (Daylight Saving).
SimpleSettingsDaylightSaving ==
    MenuItem(ConfigSet(settings, "daylight_saving", ~settings.daylight_saving),
             "Daylight Saving")

NextMenu ==
    \/ UpdatePrayerTimes
    \/ GetPrayerTimes
    \/ RtcSet
    \/ SimpleSettingsLocation
    \/ SimpleSettingsCalcMethod
    \/ SimpleSettingsDaylightSaving

SpecMenu == InitMenu /\ [][NextMenu]_vars

\* C22: an iteration of the loop that reads a minute other than the minute of
\* the iteration before it calls the prayer-alert check once, and the alert of
\* a prayer whose cached time is that minute is raised in that iteration.
C22_AlertCheckedEachMinute ==
    [][(op' = "run" /\ run.last_minute # -1 /\ rtc_time.minute # run.last_minute)
          => /\ trace'.alert_checks = 1
             /\ check_prayer_time_alert(prayer_times_cache, rtc_time.hour, rtc_time.minute) # None
                   => Len(trace'.alerts) = 1]_vars

C24_InputIsActivity ==
    [][(op' = "handle_input" /\ arg' # "none")
          => /\ app'.last_activity_time = ticks_ms'
             /\ app.is_sleeping => ~app'.is_sleeping]_vars

\* The test of check_sleep_timeout in the state it is called in.
SleepIsDue ==
    /\ settings.sleep_mode_enabled
    /\ ~app.is_sleeping
    /\ ticks_ms - app.last_activity_time > settings.sleep_timeout * 1000

\* C25: check_sleep_timeout puts the device to sleep exactly when sleep mode is
\* enabled, the device is awake and more than sleep_timeout seconds passed
\* since last_activity_time, and otherwise leaves is_sleeping as it is; called
\* on a sleeping device, update_display and update_time_only draw nothing.
C25_SleepTimeout ==
    [][/\ op' = "check_sleep_timeout"
          => /\ SleepIsDue => app'.is_sleeping
             /\ ~SleepIsDue => app'.is_sleeping = app.is_sleeping
       /\ (op' \in {"update_display", "update_time_only"} /\ app.is_sleeping)
          => trace'.draws = 0 /\ app'.is_sleeping]_vars

\* check_sleep_timeout has put the device to sleep.
C25_Witness ==
    /\ op = "check_sleep_timeout"
    /\ trace.sleeps = 1
    /\ app.is_sleeping

\* scheduled_sync is due in the state it is called in.
SyncIsDue(cfg, date, tod) == mktime(date, tod) - cfg.last_ntp_sync > cfg.ntp_sync_interval

\* C26: scheduled_sync attempts a sync exactly when the current time minus
\* last_ntp_sync exceeds ntp_sync_interval; it changes last_ntp_sync only when
\* the sync succeeded, and after a failed attempt the settings are as before
\* and a sync is still due.
C26_ScheduledSync ==
    [][op' = "scheduled_sync"
          => /\ (trace'.sync_attempts = 1) <=> SyncIsDue(settings, rtc, rtc_time)
             /\ settings'.last_ntp_sync # settings.last_ntp_sync => ret'
             /\ ~ret' => /\ settings' = settings
                         /\ trace'.sync_attempts = 1 => SyncIsDue(settings', rtc', rtc_time')]_vars

\* An attempt failed after an earlier sync had succeeded.
C26_Witness ==
    /\ op = "scheduled_sync"
    /\ trace.sync_attempts = 1
    /\ ~ret
    /\ settings.last_ntp_sync # 0

\* The servers that return a timestamp.
Answering(answers) == { i \in 1..Len(answers) : ~answers[i].error }

FirstAnswering(answers) ==
    CHOOSE i \in Answering(answers) : \A j \in Answering(answers) : i <= j

EffectiveOffsetOn(cfg, date) ==
    cfg.timezone +
    (IF cfg.daylight_saving /\ is_dst_active(date.year, date.month, date.day) THEN 1 ELSE 0)

\* C30: after a successful sync_time_from_ntp the RTC shows the time of the
\* answer plus the effective offset of the date of that time (the date in UTC,
\* in base time or as set), whatever the RTC showed before.
C30_OffsetOfSyncedDate ==
    [][(op' = "sync_time_from_ntp" /\ ret')
          => LET timestamp == arg'[FirstAnswering(arg')].timestamp
             IN  \E date \in {gmtime(timestamp).date,
                              gmtime(timestamp + settings.timezone * 3600).date, rtc'} :
                    gmtime(timestamp + EffectiveOffsetOn(settings, date) * 3600)
                       = [date |-> rtc', tod |-> rtc_time']]_vars

\* The keys of a cache, in the order the dictionary was built in.
CacheKeys(cache) == [i \in 1..Len(cache) |-> cache[i][1]]

\* C28: in every state reached by update_prayer_times, get_next_prayer,
\* get_prayer_times, check_prayer_time_alert and changes of the RTC and of the
\* settings, either the cache is empty and last_update_day is -1, or the cache
\* holds the six keys Fajr, Sunrise, Dhuhr, Asr, Maghrib, Isha in this order
\* and last_update_day is the day of the month of the date it was computed for.
C28_CacheAndDay ==
    \/ /\ prayer_times_cache = <<>>
       /\ last_update_day = NoDay
       /\ computed_for = NotComputed
    \/ /\ CacheKeys(prayer_times_cache)
             = <<"Fajr", "Sunrise", "Dhuhr", "Asr", "Maghrib", "Isha">>
       /\ computed_for # NotComputed
       /\ last_update_day = computed_for.day
       /\ prayer_times_cache
             = calculate_times(Self(computed_for.timezone), computed_for.year,
                               computed_for.month, computed_for.day)

\* The RTC has come to another day of the month while the cache holds the
\* schedule of the day it was computed for.
C28_Witness ==
    /\ op = "rtc"
    /\ prayer_times_cache # <<>>
    /\ rtc.day # computed_for.day
    /\ last_update_day = computed_for.day

\* The calculator as MuslimCompanion.__init__ constructed it, computing with
\* the offset tz.
Constructed(tz) ==
    [latitude |-> pt.latitude, longitude |-> pt.longitude, timezone |-> tz,
     calculation_method |-> pt.calculation_method, asr_madhab |-> pt.asr_madhab]

\* C29: no step changes the calculator's latitude, longitude, base timezone or
\* method; an update_prayer_times call sets the offset from the constructed
\* base timezone and the daylight_saving setting of the moment, and what it
\* computes is the schedule of the constructed location and method, whatever
\* location and method the settings hold.
C29_FixedAtConstruction ==
    [][/\ pt' = pt
       /\ op' = "update_prayer_times"
          => /\ timezone' = get_current_timezone_offset(pt.base_timezone,
                                                        settings.daylight_saving, rtc)
             /\ recomputed'
                => prayer_times_cache'
                      = calculate_times(Constructed(timezone'), rtc.year, rtc.month, rtc.day)]_vars

\* update_prayer_times has computed a schedule while the settings hold another
\* location, another method and another daylight_saving than at construction.
C29_Witness ==
    /\ op = "update_prayer_times"
    /\ recomputed
    /\ settings.latitude # pt.latitude
    /\ settings.timezone # pt.base_timezone
    /\ settings.method # pt.calculation_method
    /\ timezone # pt.base_timezone
====
